---- MODULE Spec2Model ----
(***************************************************************************)
(* State-machine model of the hyper smart-pointer library:                 *)
(*   SharedPointer<T> / SharedPointer<T[]>   include/hyper/SharedPointer.h *)
(*   UniquePointer<T> / UniquePointer<T[]>   include/hyper/UniquePointer.h *)
(*   ScopedPointer<T> / ScopedPointer<T[]>   include/hyper/ScopedPointer.h *)
(*   SharedArray<T>                          include/hyper/SharedArray.h   *)
(*   ReferenceCounter<T>                     include/hyper/ReferenceCounter.h *)
(*   Counter                                 src/Counter.cpp               *)
(*                                                                         *)
(* Every class is one record-valued variable holding its handles and the   *)
(* heap objects they point at.  Each specification drives one class and    *)
(* leaves the other variables at their initial value.                      *)
(*                                                                         *)
(* Heap objects are numbered 1, 2, ... in allocation order; 0 is nullptr.  *)
(* A handle slot is "unborn" before its constructor ran, "live" between    *)
(* constructor and destructor and "gone" after its destructor.             *)
(*                                                                         *)
(* fault records how the process ended: an ASSERTF that fails in a debug   *)
(* build aborts the process; undefined behaviour (access through a null or *)
(* deleted counter, a second delete of the same object, a dereference of a *)
(* null pointer with the assertion compiled out or of a pointer to a       *)
(* released resource) ends in the state "undefined", which stands for      *)
(* every outcome a build can produce: no further step is modelled from it  *)
(* and nothing is assumed about it.                                        *)
(***************************************************************************)
EXTENDS Integers, Sequences, FiniteSets, TLC

\* ---------------------------------------------------------------- bounds
NumHandles == 3
MaxCounters == 3
MaxResources == 2

\* nullptr
Null == 0

Handles == 1..NumHandles
Counters == 1..MaxCounters
Resources == 1..MaxResources

VARIABLES
    ndebug,  \* TRUE iff the build defines NDEBUG (assertions compiled out)
    sp,      \* SharedPointer handles, their Counter objects and resources
    up,      \* UniquePointer handles and resources
    scp,     \* ScopedPointer handles and resources
    sa,      \* SharedArray handles, their ReferenceCounter objects and arrays
    rc,      \* stand-alone reference counter objects
    dd,      \* pointer variables handed to DefaultDeleter and their objects
    us,      \* UniquePointer<Base> and UniquePointer<Derived> handles and their objects
    ar,      \* one array and the array-owning handles that share or pass it on
    th,      \* threads that copy and destroy SharedPointer handles sharing one Counter
    ctr,     \* a Counter object
    er,      \* an Error object, its _cause handle and the handles around it
    asrt,    \* a program of ASSERT / ASSERTF statements and ordinary statements
    pr,      \* two Pair objects and the result of comparing them
    by,      \* one byte operator applied to its operands
    iv,      \* the bound queries a program has made, with their results
    sd,      \* ScopedPointer handles with their deleter instances
    fn,      \* Function objects, their _callable handles and the callables they wrap
    st       \* a StackTraceSnapshot and the StackTrace built from it

vars == <<ndebug, sp, up, scp, sa, rc, dd, us, ar, th, ctr, er, asrt, pr, by, iv, sd, fn, st>>

\* ---------------------------------------------------------------- faults
NoFault == [kind |-> "none", msg |-> ""]

Abort(msg) == [kind |-> "abort", msg |-> msg]

\* The program that contains the call does not compile.
IllFormed(what) == [kind |-> "ill-formed", msg |-> what]

\* Undefined behaviour has been reached: the run stops there and nothing is
\* said about what follows.
Undefined(what) == [kind |-> "undefined", msg |-> what]

MsgNullDeref == "Attempt to dereference null pointer"

MsgBelowZero == "Attempted to decrement reference count below zero"

\* ASSERTF(condition, message): no-op under NDEBUG, otherwise abort() when the
\* condition is false.
ASSERTF(condition, message) ==
    IF ndebug THEN NoFault
    ELSE IF condition THEN NoFault ELSE Abort(message)

\* ----------------------------------------------------------------- size_t
\* size_t arithmetic.  A size_t value v is kept as the integer n nearest to 0
\* with n = v (mod 2^64): 0 - 1, which is SIZE_MAX, is kept as -1.  For the
\* unsigned v, 0 < v is n # 0.
SizeT_Positive(n) == n # 0

\* SIZE_MAX, the largest size_t
SizeT_Max == -1

\* ---------------------------------------------------------------- Counter
\* Counter::increment: returns the value before the call; _count++ on a
\* size_t, so SIZE_MAX + 1 is 0.
Counter_increment(count) == [count |-> count + 1, ret |-> count]

\* Counter::decrement: returns the value before the call; stays at zero.
Counter_decrement(count) ==
    [count |-> IF SizeT_Positive(count) THEN count - 1 ELSE count, ret |-> count]

\* ---------------------------------------------------------- SharedPointer
\* SharedPointer<T> and its specialisation SharedPointer<T[]> have the same
\* members and the same code line for line, but for the deleter's delete /
\* delete[] and for operator[] standing in place of operator* and operator->;
\* one machine models both.
SP_Init ==
    [ state     |-> [h \in Handles |-> "unborn"],
      counter   |-> [h \in Handles |-> Null],       \* _counter
      raw       |-> [h \in Handles |-> Null],       \* _rawPointer
      count     |-> [c \in Counters |-> 0],         \* Counter::_count
      deleted   |-> [c \in Counters |-> 0],         \* times delete ran on it
      nCounters |-> 0,                              \* Counter objects created
      released  |-> [r \in Resources |-> 0],        \* times delete ran on it
      nResources |-> 0,                             \* resources allocated
      ret       |-> Null,                           \* pointer returned by the latest step
      fault     |-> NoFault ]

\* new T / new T[n]: the next unused resource.
SP_NewResource(S) == [S EXCEPT !.nResources = @ + 1]

\* DefaultDeleter<T>::operator()(T *&instance), applied to handle h's _rawPointer.
SP_DefaultDeleter(S, h) ==
    IF S.fault # NoFault \/ S.raw[h] = Null THEN S
    ELSE IF S.released[S.raw[h]] > 0
         THEN [S EXCEPT !.released[S.raw[h]] = 2,
                        !.fault = Undefined("delete of a released resource")]
         ELSE [S EXCEPT !.released[S.raw[h]] = 1, !.raw[h] = Null]

\* new Counter(1), stored in handle h's _counter.
SP_NewCounter(S, h) ==
    LET c == S.nCounters + 1
    IN [S EXCEPT !.nCounters = c, !.count[c] = 1, !.counter[h] = c]

\* _counter->increment() on handle h.
SP_increment(S, h) ==
    IF S.fault # NoFault THEN S
    ELSE IF S.counter[h] = Null
         THEN [S EXCEPT !.fault = Undefined("increment through a null counter")]
    ELSE IF S.deleted[S.counter[h]] > 0
         THEN [S EXCEPT !.fault = Undefined("increment of a deleted counter")]
    ELSE [S EXCEPT !.count[S.counter[h]] = Counter_increment(@).count]

\* SharedPointer::expire
SharedPointer_expire(S, h) ==
    IF S.fault # NoFault \/ S.counter[h] = Null THEN S
    ELSE LET c == S.counter[h] IN
         IF S.deleted[c] > 0
         THEN [S EXCEPT !.fault = Undefined("decrement of a deleted counter")]
         ELSE LET d  == Counter_decrement(S.count[c])
                  S1 == [S EXCEPT !.count[c] = d.count]
                  S2 == IF d.ret = 1
                        THEN SP_DefaultDeleter([S1 EXCEPT !.deleted[c] = 1], h)
                        ELSE S1
              IN  IF S2.fault # NoFault THEN S2 ELSE [S2 EXCEPT !.counter[h] = Null]

\* SharedPointer::get, called on `other` with this handle's members as outputs.
SharedPointer_get(S, h, other) ==
    [S EXCEPT !.counter[h] = S.counter[other], !.raw[h] = S.raw[other]]

\* SharedPointer::release, called on `other` with this handle's members as outputs.
SharedPointer_release(S, h, other) ==
    LET S1 == SharedPointer_get(S, h, other)
    IN  [S1 EXCEPT !.counter[other] = Null, !.raw[other] = Null]

\* A reset that forgets the old reference instead of dropping it.
SharedPointer_reset_NoExpire(S, h, p) ==
    [SP_NewCounter(S, h) EXCEPT !.raw[h] = p]

\* SharedPointer::reset(rawPointer)
SharedPointer_reset(S, h, p) ==
    LET S1 == SharedPointer_expire(S, h)
    IN  IF S1.fault # NoFault THEN S1
        ELSE [SP_NewCounter(S1, h) EXCEPT !.raw[h] = p]

\* A swap that exchanges the counters and leaves the raw pointers in place.
SharedPointer_swap_CountersOnly(S, h, other) ==
    [S EXCEPT !.counter[h] = S.counter[other], !.counter[other] = S.counter[h]]

\* SharedPointer::swap
SharedPointer_swap(S, h, other) ==
    [S EXCEPT !.counter[h] = S.counter[other], !.raw[h] = S.raw[other],
              !.counter[other] = S.counter[h], !.raw[other] = S.raw[h]]

\* A copy that shares the counter without incrementing it.
SharedPointer_copy_NoIncrement(S, h, other) ==
    [S EXCEPT !.state[h] = "live",
              !.counter[h] = S.counter[other], !.raw[h] = S.raw[other]]

\* SharedPointer(const SharedPointer &other)
SharedPointer_copy(S, h, other) ==
    SP_increment([S EXCEPT !.state[h] = "live",
                           !.counter[h] = S.counter[other],
                           !.raw[h] = S.raw[other]], h)

\* A move that leaves the source its counter.
SharedPointer_move_Shares(S, h, other) ==
    [S EXCEPT !.state[h] = "live",
              !.counter[h] = S.counter[other], !.raw[h] = S.raw[other]]

\* SharedPointer(SharedPointer &&other): only other._counter is cleared.
SharedPointer_move(S, h, other) ==
    [S EXCEPT !.state[h] = "live",
              !.counter[h] = S.counter[other], !.raw[h] = S.raw[other],
              !.counter[other] = Null]

\* SharedPointer(SharedPointer<Subtype> &&other): other.release(...)
SharedPointer_moveSubtype(S, h, other) ==
    SharedPointer_release([S EXCEPT !.state[h] = "live"], h, other)

\* operator=(SharedPointer const &other)
SharedPointer_copyAssign(S, h, other) ==
    LET S1 == SharedPointer_expire(S, h)
    IN  IF S1.fault # NoFault THEN S1
        ELSE SP_increment(SharedPointer_get(S1, h, other), h)

\* operator=(SharedPointer &&other)
SharedPointer_moveAssign(S, h, other) ==
    LET S1 == SharedPointer_expire(S, h)
    IN  IF S1.fault # NoFault THEN S1
        ELSE SharedPointer_release(S1, h, other)

\* ~SharedPointer(): expire(), after which the handle object no longer exists.
SharedPointer_dtor(S, h) ==
    LET S1 == SharedPointer_expire(S, h)
    IN  IF S1.fault # NoFault THEN S1
        ELSE [S1 EXCEPT !.state[h] = "gone", !.raw[h] = Null]

\* operator bool
SharedPointer_bool(S, h) == S.raw[h] # Null

\* operator*, operator-> (scalar form) and operator[] (array form)
\* The set of outcomes: indirection through a pointer whose resource has been
\* released is undefined, so the call may return the stale pointer or go wrong.
SharedPointer_deref(S, h) ==
    LET f == ASSERTF(S.raw[h] # Null, MsgNullDeref)
    IN  IF f # NoFault THEN {[S EXCEPT !.fault = f]}
        ELSE IF S.raw[h] = Null
             THEN {[S EXCEPT !.fault = Undefined("dereference of a null pointer")]}
             ELSE IF S.released[S.raw[h]] > 0
                  THEN {[S EXCEPT !.ret = S.raw[h]],
                        [S EXCEPT !.fault =
                            Undefined("dereference of a released resource")]}
                  ELSE {[S EXCEPT !.ret = S.raw[h]]}

SP_Live(h) == sp.state[h] = "live"

\* A step that returns no pointer.
SP_Void(S) == [S EXCEPT !.ret = Null]

\* Handle objects are constructed in slot order: slot h is the next one to be
\* constructed when every lower slot has been.
SP_NextSlot(h) ==
    /\ sp.state[h] = "unborn"
    /\ \A g \in Handles : g < h => sp.state[g] # "unborn"

SP_Running == sp.fault = NoFault

SP_Others == UNCHANGED <<ndebug, up, scp, sa, rc, dd, us, ar, th, ctr, er, asrt, pr, by, iv, sd, fn, st>>

\* SharedPointer()
SP_DefaultConstruct(h) ==
    /\ SP_Running /\ SP_NextSlot(h) /\ sp.nCounters < MaxCounters
    /\ sp' = SP_Void([SP_NewCounter(sp, h) EXCEPT !.state[h] = "live", !.raw[h] = Null])
    /\ SP_Others

\* SharedPointer(T *&&rawPointer) with a freshly allocated resource or nullptr
SP_Construct(h, fresh) ==
    /\ SP_Running /\ SP_NextSlot(h) /\ sp.nCounters < MaxCounters
    /\ fresh => sp.nResources < MaxResources
    /\ LET S1 == IF fresh THEN SP_NewResource(sp) ELSE sp
           p  == IF fresh THEN S1.nResources ELSE Null
       IN  sp' = SP_Void([SP_NewCounter(S1, h) EXCEPT !.state[h] = "live", !.raw[h] = p])
    /\ SP_Others

SP_CopyConstruct(h, other) ==
    /\ SP_Running /\ SP_NextSlot(h) /\ SP_Live(other)
    /\ sp' = SP_Void(SharedPointer_copy(sp, h, other))
    /\ SP_Others

SP_MoveConstruct(h, other) ==
    /\ SP_Running /\ SP_NextSlot(h) /\ SP_Live(other)
    /\ sp' = SP_Void(SharedPointer_move(sp, h, other))
    /\ SP_Others

SP_MoveConstructSubtype(h, other) ==
    /\ SP_Running /\ SP_NextSlot(h) /\ SP_Live(other)
    /\ sp' = SP_Void(SharedPointer_moveSubtype(sp, h, other))
    /\ SP_Others

SP_Expire(h) ==
    /\ SP_Running /\ SP_Live(h)
    /\ sp' = SP_Void(SharedPointer_expire(sp, h))
    /\ SP_Others

SP_Destroy(h) ==
    /\ SP_Running /\ SP_Live(h)
    /\ sp' = SP_Void(SharedPointer_dtor(sp, h))
    /\ SP_Others

SP_Reset(h, fresh) ==
    /\ SP_Running /\ SP_Live(h) /\ sp.nCounters < MaxCounters
    /\ fresh => sp.nResources < MaxResources
    /\ LET S1 == IF fresh THEN SP_NewResource(sp) ELSE sp
           p  == IF fresh THEN S1.nResources ELSE Null
       IN  sp' = SP_Void(SharedPointer_reset(S1, h, p))
    /\ SP_Others

SP_Swap(h, other) ==
    /\ SP_Running /\ SP_Live(h) /\ SP_Live(other)
    /\ sp' = SP_Void(SharedPointer_swap(sp, h, other))
    /\ SP_Others

SP_CopyAssign(h, other) ==
    /\ SP_Running /\ SP_Live(h) /\ SP_Live(other)
    /\ sp' = SP_Void(SharedPointer_copyAssign(sp, h, other))
    /\ SP_Others

SP_MoveAssign(h, other) ==
    /\ SP_Running /\ SP_Live(h) /\ SP_Live(other)
    /\ sp' = SP_Void(SharedPointer_moveAssign(sp, h, other))
    /\ SP_Others

SP_Deref(h) ==
    /\ SP_Running /\ SP_Live(h)
    /\ sp' \in SharedPointer_deref(sp, h)
    /\ SP_Others

SP_Next ==
    \/ \E h \in Handles : SP_DefaultConstruct(h)
    \/ \E h \in Handles, fresh \in BOOLEAN : SP_Construct(h, fresh)
    \/ \E h, other \in Handles : SP_CopyConstruct(h, other)
    \/ \E h, other \in Handles : SP_MoveConstruct(h, other)
    \/ \E h, other \in Handles : SP_MoveConstructSubtype(h, other)
    \/ \E h \in Handles : SP_Expire(h)
    \/ \E h \in Handles : SP_Destroy(h)
    \/ \E h \in Handles, fresh \in BOOLEAN : SP_Reset(h, fresh)
    \/ \E h, other \in Handles : SP_Swap(h, other)
    \/ \E h, other \in Handles : SP_CopyAssign(h, other)
    \/ \E h, other \in Handles : SP_MoveAssign(h, other)
    \/ \E h \in Handles : SP_Deref(h)

\* ---------------------------------------------------------- UniquePointer
\* UniquePointer<T> and UniquePointer<T[]> have the same code but for the
\* deleter's delete / delete[] and operator[] in place of operator* and ->; the
\* move constructor and move assignment from UniquePointer<Subtype> have the
\* same bodies as those from UniquePointer.  One machine models them all.
UP_Init ==
    [ state      |-> [h \in Handles |-> "unborn"],
      raw        |-> [h \in Handles |-> Null],      \* _rawPointer
      released   |-> [r \in Resources |-> 0],       \* times delete ran on it
      nResources |-> 0,                             \* resources allocated
      ret        |-> Null,                          \* pointer returned by the latest step
      fault      |-> NoFault ]

UP_NewResource(S) == [S EXCEPT !.nResources = @ + 1]

\* A deleter that frees the instance and leaves the pointer as it was.
UP_DefaultDeleter_KeepPointer(S, h) ==
    IF S.fault # NoFault \/ S.raw[h] = Null THEN S
    ELSE IF S.released[S.raw[h]] > 0
         THEN [S EXCEPT !.released[S.raw[h]] = 2,
                        !.fault = Undefined("delete of a released resource")]
         ELSE [S EXCEPT !.released[S.raw[h]] = 1]

\* DefaultDeleter<T>::operator()(T *&instance), applied to handle h's _rawPointer.
UP_DefaultDeleter(S, h) ==
    IF S.fault # NoFault \/ S.raw[h] = Null THEN S
    ELSE IF S.released[S.raw[h]] > 0
         THEN [S EXCEPT !.released[S.raw[h]] = 2,
                        !.fault = Undefined("delete of a released resource")]
         ELSE [S EXCEPT !.released[S.raw[h]] = 1, !.raw[h] = Null]

\* UniquePointer::expire
UniquePointer_expire(S, h) == UP_DefaultDeleter(S, h)

\* A release that returns the pointer and keeps it in the handle.
UniquePointer_release_KeepPointer(S, h) == [S EXCEPT !.ret = S.raw[h]]

\* UniquePointer::release: returns the pointer and clears the handle.
UniquePointer_release(S, h) == [S EXCEPT !.ret = S.raw[h], !.raw[h] = Null]

\* A reset that overwrites the pointer without freeing the old resource.
UniquePointer_reset_NoExpire(S, h, p) == [S EXCEPT !.raw[h] = p]

\* UniquePointer::reset(rawPointer)
UniquePointer_reset(S, h, p) ==
    LET S1 == UniquePointer_expire(S, h)
    IN  IF S1.fault # NoFault THEN S1 ELSE [S1 EXCEPT !.raw[h] = p]

\* UniquePointer::swap
UniquePointer_swap(S, h, other) ==
    [S EXCEPT !.raw[h] = S.raw[other], !.raw[other] = S.raw[h]]

\* UniquePointer(UniquePointer &&other) and UniquePointer(UniquePointer<Subtype> &&other)
UniquePointer_move(S, h, other) ==
    LET S1 == UniquePointer_release(S, other)
    IN  [S1 EXCEPT !.state[h] = "live", !.raw[h] = S1.ret]

\* operator=(UniquePointer &&other) and operator=(UniquePointer<Subtype> &&other)
UniquePointer_moveAssign(S, h, other) ==
    LET S1 == UniquePointer_release(S, other)
    IN  UniquePointer_reset(S1, h, S1.ret)

\* ~UniquePointer(): expire(), after which the handle object no longer exists.
UniquePointer_dtor(S, h) ==
    LET S1 == UniquePointer_expire(S, h)
    IN  IF S1.fault # NoFault THEN S1 ELSE [S1 EXCEPT !.state[h] = "gone"]

\* operator bool
UniquePointer_bool(S, h) == S.raw[h] # Null

\* operator*, operator-> (scalar form) and operator[] (array form)
UniquePointer_deref(S, h) ==
    LET f == ASSERTF(S.raw[h] # Null, MsgNullDeref)
    IN  IF f # NoFault THEN [S EXCEPT !.fault = f]
        ELSE IF S.raw[h] = Null
             THEN [S EXCEPT !.fault = Undefined("dereference of a null pointer")]
             ELSE [S EXCEPT !.ret = S.raw[h]]

UP_Live(h) == up.state[h] = "live"

UP_Running == up.fault = NoFault

UP_NextSlot(h) ==
    /\ up.state[h] = "unborn"
    /\ \A g \in Handles : g < h => up.state[g] # "unborn"

UP_Void(S) == [S EXCEPT !.ret = Null]

UP_Others == UNCHANGED <<ndebug, sp, scp, sa, rc, dd, us, ar, th, ctr, er, asrt, pr, by, iv, sd, fn, st>>

\* UniquePointer()
UP_DefaultConstruct(h) ==
    /\ UP_Running /\ UP_NextSlot(h)
    /\ up' = UP_Void([up EXCEPT !.state[h] = "live", !.raw[h] = Null])
    /\ UP_Others

\* UniquePointer(T *&&rawPointer) with a freshly allocated resource or nullptr
UP_Construct(h, fresh) ==
    /\ UP_Running /\ UP_NextSlot(h)
    /\ fresh => up.nResources < MaxResources
    /\ LET S1 == IF fresh THEN UP_NewResource(up) ELSE up
           p  == IF fresh THEN S1.nResources ELSE Null
       IN  up' = UP_Void([S1 EXCEPT !.state[h] = "live", !.raw[h] = p])
    /\ UP_Others

UP_MoveConstruct(h, other) ==
    /\ UP_Running /\ UP_NextSlot(h) /\ UP_Live(other)
    /\ up' = UP_Void(UniquePointer_move(up, h, other))
    /\ UP_Others

UP_Expire(h) ==
    /\ UP_Running /\ UP_Live(h)
    /\ up' = UP_Void(UniquePointer_expire(up, h))
    /\ UP_Others

UP_Destroy(h) ==
    /\ UP_Running /\ UP_Live(h)
    /\ up' = UP_Void(UniquePointer_dtor(up, h))
    /\ UP_Others

UP_Reset(h, fresh) ==
    /\ UP_Running /\ UP_Live(h)
    /\ fresh => up.nResources < MaxResources
    /\ LET S1 == IF fresh THEN UP_NewResource(up) ELSE up
           p  == IF fresh THEN S1.nResources ELSE Null
       IN  up' = UP_Void(UniquePointer_reset(S1, h, p))
    /\ UP_Others

UP_Swap(h, other) ==
    /\ UP_Running /\ UP_Live(h) /\ UP_Live(other)
    /\ up' = UP_Void(UniquePointer_swap(up, h, other))
    /\ UP_Others

UP_MoveAssign(h, other) ==
    /\ UP_Running /\ UP_Live(h) /\ UP_Live(other)
    /\ up' = UP_Void(UniquePointer_moveAssign(up, h, other))
    /\ UP_Others

UP_Deref(h) ==
    /\ UP_Running /\ UP_Live(h)
    /\ up' = UniquePointer_deref(up, h)
    /\ UP_Others

\* release() called by client code: the pointer leaves the handle.
UP_Release(h) ==
    /\ UP_Running /\ UP_Live(h)
    /\ up' = UniquePointer_release(up, h)
    /\ UP_Others

UP_Next ==
    \/ \E h \in Handles : UP_DefaultConstruct(h)
    \/ \E h \in Handles, fresh \in BOOLEAN : UP_Construct(h, fresh)
    \/ \E h, other \in Handles : UP_MoveConstruct(h, other)
    \/ \E h \in Handles : UP_Expire(h)
    \/ \E h \in Handles : UP_Destroy(h)
    \/ \E h \in Handles, fresh \in BOOLEAN : UP_Reset(h, fresh)
    \/ \E h, other \in Handles : UP_Swap(h, other)
    \/ \E h, other \in Handles : UP_MoveAssign(h, other)
    \/ \E h \in Handles : UP_Deref(h)
    \/ \E h \in Handles : UP_Release(h)

\* ---------------------------------------------------------- ScopedPointer
\* ScopedPointer<T, Deleter> and ScopedPointer<T[], Deleter> have the same code
\* but for operator[] in place of operator* and ->.  The deleter is the default
\* one, DefaultDeleter<T>.
ScP_Init ==
    [ state      |-> [h \in Handles |-> "unborn"],
      ptr        |-> [h \in Handles |-> Null],      \* _ptr
      released   |-> [r \in Resources |-> 0],       \* times the deleter freed it
      nResources |-> 0,
      ret        |-> Null,
      fault      |-> NoFault ]

ScP_NewResource(S) == [S EXCEPT !.nResources = @ + 1]

\* _deleter(_ptr) with DefaultDeleter
ScP_DefaultDeleter(S, h) ==
    IF S.fault # NoFault \/ S.ptr[h] = Null THEN S
    ELSE IF S.released[S.ptr[h]] > 0
         THEN [S EXCEPT !.released[S.ptr[h]] = 2,
                        !.fault = Undefined("delete of a released resource")]
         ELSE [S EXCEPT !.released[S.ptr[h]] = 1, !.ptr[h] = Null]

\* ~ScopedPointer()
ScopedPointer_dtor(S, h) ==
    LET S1 == ScP_DefaultDeleter(S, h)
    IN  IF S1.fault # NoFault THEN S1 ELSE [S1 EXCEPT !.state[h] = "gone"]

\* A swap that copies the other handle's pointer and leaves the other as it was.
ScopedPointer_swap_OneWay(S, h, other) == [S EXCEPT !.ptr[h] = S.ptr[other]]

\* ScopedPointer::swap
ScopedPointer_swap(S, h, other) ==
    [S EXCEPT !.ptr[h] = S.ptr[other], !.ptr[other] = S.ptr[h]]

\* operator bool
ScopedPointer_bool(S, h) == S.ptr[h] # Null

\* operator*, operator-> (scalar form) and operator[] (array form)
ScopedPointer_deref(S, h) ==
    LET f == ASSERTF(S.ptr[h] # Null, MsgNullDeref)
    IN  IF f # NoFault THEN [S EXCEPT !.fault = f]
        ELSE IF S.ptr[h] = Null
             THEN [S EXCEPT !.fault = Undefined("dereference of a null pointer")]
             ELSE [S EXCEPT !.ret = S.ptr[h]]

ScP_Live(h) == scp.state[h] = "live"

ScP_Running == scp.fault = NoFault

ScP_NextSlot(h) ==
    /\ scp.state[h] = "unborn"
    /\ \A g \in Handles : g < h => scp.state[g] # "unborn"

ScP_Void(S) == [S EXCEPT !.ret = Null]

ScP_Others == UNCHANGED <<ndebug, sp, up, sa, rc, dd, us, ar, th, ctr, er, asrt, pr, by, iv, sd, fn, st>>

\* ScopedPointer()
ScP_DefaultConstruct(h) ==
    /\ ScP_Running /\ ScP_NextSlot(h)
    /\ scp' = ScP_Void([scp EXCEPT !.state[h] = "live", !.ptr[h] = Null])
    /\ ScP_Others

\* ScopedPointer(T *&&ptr) with a freshly allocated resource or nullptr
ScP_Construct(h, fresh) ==
    /\ ScP_Running /\ ScP_NextSlot(h)
    /\ fresh => scp.nResources < MaxResources
    /\ LET S1 == IF fresh THEN ScP_NewResource(scp) ELSE scp
           p  == IF fresh THEN S1.nResources ELSE Null
       IN  scp' = ScP_Void([S1 EXCEPT !.state[h] = "live", !.ptr[h] = p])
    /\ ScP_Others

ScP_Destroy(h) ==
    /\ ScP_Running /\ ScP_Live(h)
    /\ scp' = ScP_Void(ScopedPointer_dtor(scp, h))
    /\ ScP_Others

ScP_Swap(h, other) ==
    /\ ScP_Running /\ ScP_Live(h) /\ ScP_Live(other)
    /\ scp' = ScP_Void(ScopedPointer_swap(scp, h, other))
    /\ ScP_Others

ScP_Deref(h) ==
    /\ ScP_Running /\ ScP_Live(h)
    /\ scp' = ScopedPointer_deref(scp, h)
    /\ ScP_Others

ScP_Next ==
    \/ \E h \in Handles : ScP_DefaultConstruct(h)
    \/ \E h \in Handles, fresh \in BOOLEAN : ScP_Construct(h, fresh)
    \/ \E h \in Handles : ScP_Destroy(h)
    \/ \E h, other \in Handles : ScP_Swap(h, other)
    \/ \E h \in Handles : ScP_Deref(h)

\* ------------------------------------------------------------ SharedArray
SA_Init ==
    [ state      |-> [h \in Handles |-> "unborn"],
      impl       |-> [h \in Handles |-> Null],      \* _impl
      count      |-> [c \in Counters |-> 0],        \* ReferenceCounter::_count
      arr        |-> [c \in Counters |-> Null],     \* ReferenceCounter::_arr
      deleted    |-> [c \in Counters |-> 0],        \* times delete ran on the counter
      nCounters  |-> 0,
      released   |-> [r \in Resources |-> 0],       \* times delete[] ran on the array
      nResources |-> 0,
      ret        |-> Null,
      retBool    |-> FALSE,                         \* value returned by the latest comparison
      fault      |-> NoFault ]

SA_NewResource(S) == [S EXCEPT !.nResources = @ + 1]

\* SharedArray::ReferenceCounter::increment
SharedArray_ReferenceCounter_increment(count) == count + 1

\* A decrement that tests the count before lowering it.
SharedArray_ReferenceCounter_decrement_OffByOne(count) ==
    LET f == ASSERTF(count > 0, MsgBelowZero)
    IN  [ fault |-> f,
          count |-> IF f = NoFault THEN count - 1 ELSE count,
          ret   |-> f = NoFault /\ SizeT_Positive(count) ]

\* SharedArray::ReferenceCounter::decrement: the assertion, then 0 < --_count
\* (when the assertion aborts, the count is left as it was and nothing is
\* returned)
SharedArray_ReferenceCounter_decrement(count) ==
    LET f == ASSERTF(count > 0, MsgBelowZero)
    IN  [ fault |-> f,
          count |-> IF f = NoFault THEN count - 1 ELSE count,
          ret   |-> f = NoFault /\ SizeT_Positive(count - 1) ]

\* new ReferenceCounter(arr), stored in handle h's _impl
SA_NewCounter(S, h, p) ==
    LET c == S.nCounters + 1
    IN  [S EXCEPT !.nCounters = c, !.count[c] = 1, !.arr[c] = p, !.impl[h] = c]

\* delete _impl: ~ReferenceCounter() sets _count to 0 and runs the
\* VectorDestructor on _arr.
SA_DeleteCounter(S, c) ==
    IF S.deleted[c] > 0
    THEN [S EXCEPT !.deleted[c] = 2,
                   !.fault = Undefined("delete of a deleted counter")]
    ELSE LET S1 == [S EXCEPT !.deleted[c] = 1, !.count[c] = 0]
             a  == S.arr[c]
         IN  IF a = Null THEN S1
             ELSE IF S1.released[a] > 0
                  THEN [S1 EXCEPT !.released[a] = 2,
                                  !.fault = Undefined("delete[] of a released array")]
                  ELSE [S1 EXCEPT !.released[a] = 1, !.arr[c] = Null]

\* _impl->increment() on handle h
SA_increment(S, h) ==
    IF S.fault # NoFault THEN S
    ELSE IF S.impl[h] = Null
         THEN [S EXCEPT !.fault = Undefined("increment through a null counter")]
    ELSE IF S.deleted[S.impl[h]] > 0
         THEN [S EXCEPT !.fault = Undefined("increment of a deleted counter")]
    ELSE [S EXCEPT !.count[S.impl[h]] = SharedArray_ReferenceCounter_increment(@)]

\* SharedArray(const SharedArray &other)
SharedArray_copy(S, h, other) ==
    SA_increment([S EXCEPT !.state[h] = "live", !.impl[h] = S.impl[other]], h)

\* SharedArray(SharedArray &&other)
SharedArray_move(S, h, other) ==
    [S EXCEPT !.state[h] = "live", !.impl[h] = S.impl[other], !.impl[other] = Null]

\* ~SharedArray()
SharedArray_dtor(S, h) ==
    IF S.fault # NoFault THEN S
    ELSE IF S.impl[h] = Null THEN [S EXCEPT !.state[h] = "gone"]
    ELSE LET c == S.impl[h] IN
         IF S.deleted[c] > 0
         THEN [S EXCEPT !.fault = Undefined("decrement of a deleted counter")]
         ELSE LET d  == SharedArray_ReferenceCounter_decrement(S.count[c])
              IN  IF d.fault # NoFault THEN [S EXCEPT !.fault = d.fault]
                  ELSE LET S1 == [S EXCEPT !.count[c] = d.count]
                           S2 == IF ~d.ret THEN SA_DeleteCounter(S1, c) ELSE S1
                       IN  IF S2.fault # NoFault THEN S2
                           ELSE [S2 EXCEPT !.impl[h] = Null, !.state[h] = "gone"]

\* SharedArray::swap
SharedArray_swap(S, h, other) ==
    [S EXCEPT !.impl[h] = S.impl[other], !.impl[other] = S.impl[h]]

\* operator=(SharedArray other): the parameter is a temporary handle, built
\* from the argument by the copy or the move constructor, swapped with this
\* handle and destroyed on return.  The temporary is kept in the handle
\* record in slot SA_Tmp for the length of the call.
SA_Tmp == NumHandles + 1

SA_WithTemp(S) ==
    [S EXCEPT !.state = [x \in Handles \cup {SA_Tmp} |->
                            IF x = SA_Tmp THEN "unborn" ELSE S.state[x]],
              !.impl  = [x \in Handles \cup {SA_Tmp} |->
                            IF x = SA_Tmp THEN Null ELSE S.impl[x]]]

SA_WithoutTemp(S) ==
    [S EXCEPT !.state = [x \in Handles |-> S.state[x]],
              !.impl  = [x \in Handles |-> S.impl[x]]]

SharedArray_assign(S, h, other, byMove) ==
    LET S0 == SA_WithTemp(S)
        S1 == IF byMove THEN SharedArray_move(S0, SA_Tmp, other)
                        ELSE SharedArray_copy(S0, SA_Tmp, other)
        S2 == IF S1.fault # NoFault THEN S1 ELSE SharedArray_swap(S1, h, SA_Tmp)
        S3 == SharedArray_dtor(S2, SA_Tmp)
    IN  SA_WithoutTemp(S3)

\* operator[]
SharedArray_index(S, h) ==
    IF S.impl[h] = Null
    THEN [S EXCEPT !.fault = Undefined("getReference through a null counter")]
    ELSE LET a == S.arr[S.impl[h]]
             f == ASSERTF(a # Null, MsgNullDeref)
         IN  IF f # NoFault THEN [S EXCEPT !.fault = f]
             ELSE IF a = Null
                  THEN [S EXCEPT !.fault = Undefined("dereference of a null pointer")]
                  ELSE [S EXCEPT !.ret = a]

\* operator bool: _impl->getReference() != nullptr, without a check of _impl.
SharedArray_bool(S, h) ==
    IF S.impl[h] = Null
    THEN [S EXCEPT !.fault = Undefined("getReference through a null counter")]
    ELSE [S EXCEPT !.ret = Null, !.retBool = (S.arr[S.impl[h]] # Null)]

\* operator==: the set of outcomes.  With different _impl pointers, one of
\* them null, getReference() is called through the null pointer.
SharedArray_eq(S, h, other) ==
    IF S.impl[h] = S.impl[other]
    THEN {[S EXCEPT !.ret = Null, !.retBool = TRUE]}
    ELSE IF S.impl[h] = Null \/ S.impl[other] = Null
         THEN {[S EXCEPT !.fault = Undefined("getReference through a null counter")]}
         ELSE {[S EXCEPT !.ret = Null,
                         !.retBool = (S.arr[S.impl[h]] = S.arr[S.impl[other]])]}

\* operator!=: !(this == other) compares the pointer this with the object
\* other; no operator== takes these operands, so a program that calls
\* operator!= is rejected by the compiler.
SharedArray_ne(S, h, other) ==
    {[S EXCEPT !.fault =
        IllFormed("no match for operator== (SharedArray const *, SharedArray const)")]}

SA_Live(h) == sa.state[h] = "live"

SA_Running == sa.fault = NoFault

SA_NextSlot(h) ==
    /\ sa.state[h] = "unborn"
    /\ \A g \in Handles : g < h => sa.state[g] # "unborn"

SA_Void(S) == [S EXCEPT !.ret = Null, !.retBool = FALSE]

SA_Others == UNCHANGED <<ndebug, sp, up, scp, rc, dd, us, ar, th, ctr, er, asrt, pr, by, iv, sd, fn, st>>

\* SharedArray(size_t length) and SharedArray(T *&&arr) with a fresh array, or
\* SharedArray(nullptr)
SA_Construct(h, fresh) ==
    /\ SA_Running /\ SA_NextSlot(h) /\ sa.nCounters < MaxCounters
    /\ fresh => sa.nResources < MaxResources
    /\ LET S1 == IF fresh THEN SA_NewResource(sa) ELSE sa
           p  == IF fresh THEN S1.nResources ELSE Null
       IN  sa' = SA_Void([SA_NewCounter(S1, h, p) EXCEPT !.state[h] = "live"])
    /\ SA_Others

SA_CopyConstruct(h, other) ==
    /\ SA_Running /\ SA_NextSlot(h) /\ SA_Live(other)
    /\ sa' = SA_Void(SharedArray_copy(sa, h, other))
    /\ SA_Others

SA_MoveConstruct(h, other) ==
    /\ SA_Running /\ SA_NextSlot(h) /\ SA_Live(other)
    /\ sa' = SA_Void(SharedArray_move(sa, h, other))
    /\ SA_Others

SA_Destroy(h) ==
    /\ SA_Running /\ SA_Live(h)
    /\ sa' = SA_Void(SharedArray_dtor(sa, h))
    /\ SA_Others

SA_Swap(h, other) ==
    /\ SA_Running /\ SA_Live(h) /\ SA_Live(other)
    /\ sa' = SA_Void(SharedArray_swap(sa, h, other))
    /\ SA_Others

SA_Assign(h, other, byMove) ==
    /\ SA_Running /\ SA_Live(h) /\ SA_Live(other)
    /\ sa' = SA_Void(SharedArray_assign(sa, h, other, byMove))
    /\ SA_Others

SA_Index(h) ==
    /\ SA_Running /\ SA_Live(h)
    /\ sa' = SharedArray_index(sa, h)
    /\ SA_Others

SA_Bool(h) ==
    /\ SA_Running /\ SA_Live(h)
    /\ sa' = SharedArray_bool(sa, h)
    /\ SA_Others

SA_Equal(h, other) ==
    /\ SA_Running /\ SA_Live(h) /\ SA_Live(other)
    /\ sa' \in SharedArray_eq(sa, h, other)
    /\ SA_Others

SA_NotEqual(h, other) ==
    /\ SA_Running /\ SA_Live(h) /\ SA_Live(other)
    /\ sa' \in SharedArray_ne(sa, h, other)
    /\ SA_Others

SA_Next ==
    \/ \E h \in Handles, fresh \in BOOLEAN : SA_Construct(h, fresh)
    \/ \E h, other \in Handles : SA_CopyConstruct(h, other)
    \/ \E h, other \in Handles : SA_MoveConstruct(h, other)
    \/ \E h \in Handles : SA_Destroy(h)
    \/ \E h, other \in Handles : SA_Swap(h, other)
    \/ \E h, other \in Handles, byMove \in BOOLEAN : SA_Assign(h, other, byMove)
    \/ \E h \in Handles : SA_Index(h)

\* ------------------------------------------------------- ReferenceCounter
\* ReferenceCounter<T>::increment: _counter.increment()
ReferenceCounter_increment(count) == Counter_increment(count).count

\* A decrement without the assertion.
ReferenceCounter_decrement_NoAssert(count) ==
    LET d == Counter_decrement(count)
    IN  [ fault |-> NoFault, count |-> d.count, ret |-> d.ret > 1 ]

\* A decrement that returns whether the count was positive before the call.
ReferenceCounter_decrement_ReturnsOld(count) ==
    LET d == Counter_decrement(count)
        f == ASSERTF(d.ret > 0, MsgBelowZero)
    IN  [ fault |-> f, count |-> d.count, ret |-> f = NoFault /\ d.ret > 0 ]

\* ReferenceCounter<T>::decrement: _counter.decrement(), then the assertion on
\* the value before the call, then count > 1 (nothing is returned when the
\* assertion aborts).
ReferenceCounter_decrement(count) ==
    LET d == Counter_decrement(count)
        f == ASSERTF(d.ret > 0, MsgBelowZero)
    IN  [ fault |-> f, count |-> d.count, ret |-> f = NoFault /\ d.ret > 1 ]

\* The two reference counter classes of the library.
RC_Kinds == {"ReferenceCounter", "SharedArray::ReferenceCounter"}

\* One reference counter object driven directly through its interface.  incs
\* and decs count the calls of increment and decrement made on it; mixed
\* tells that an increment came after a decrement.
RC_Init ==
    [ kind     |-> "ReferenceCounter",
      state    |-> "unborn",
      count    |-> 0,          \* _counter / _count
      raw      |-> Null,       \* _rawPointer / _arr
      released |-> 0,          \* times the owned resource was freed
      incs     |-> 0,
      decs     |-> 0,
      mixed    |-> FALSE,
      retBool  |-> FALSE,      \* value returned by the latest decrement
      retPtr   |-> Null,       \* value returned by the latest getPointer
      fault    |-> NoFault ]

\* increments made on one counter
MaxIncs == 3

RC_Live == rc.state = "live" /\ rc.fault = NoFault

RC_Others == UNCHANGED <<ndebug, sp, up, scp, sa, dd, us, ar, th, ctr, er, asrt, pr, by, iv, sd, fn, st>>

\* ReferenceCounter(ptr): the count starts at 1
RC_Construct(kind, p) ==
    /\ rc.state = "unborn"
    /\ rc' = [rc EXCEPT !.kind = kind, !.state = "live",
                        !.count = 1, !.raw = p]
    /\ RC_Others

RC_Increment ==
    /\ RC_Live /\ rc.incs < MaxIncs
    /\ rc' = [rc EXCEPT
                !.count = IF rc.kind = "ReferenceCounter"
                          THEN ReferenceCounter_increment(@)
                          ELSE SharedArray_ReferenceCounter_increment(@),
                !.incs  = @ + 1,
                !.mixed = @ \/ rc.decs > 0]
    /\ RC_Others

RC_Decrement ==
    /\ RC_Live /\ rc.decs < MaxIncs + 2
    /\ LET d == IF rc.kind = "ReferenceCounter"
                THEN ReferenceCounter_decrement(rc.count)
                ELSE SharedArray_ReferenceCounter_decrement(rc.count)
       IN  rc' = [rc EXCEPT !.count = d.count, !.retBool = d.ret,
                            !.fault = d.fault, !.decs = @ + 1]
    /\ RC_Others

\* getPointer / getReference
RC_GetPointer ==
    /\ RC_Live
    /\ rc' = [rc EXCEPT !.retPtr = rc.raw]
    /\ RC_Others

\* ~ReferenceCounter(): the deleter runs on the owned pointer; the nested class
\* of SharedArray also sets _count to 0.
RC_Destroy ==
    /\ RC_Live
    /\ rc' = [rc EXCEPT !.state = "gone",
                        !.count = IF rc.kind = "ReferenceCounter" THEN @ ELSE 0,
                        !.released = IF rc.raw # Null THEN @ + 1 ELSE @,
                        !.raw = Null]
    /\ RC_Others

RC_Next ==
    \/ \E kind \in RC_Kinds, p \in {Null, 1} : RC_Construct(kind, p)
    \/ RC_Increment
    \/ RC_Decrement
    \/ RC_GetPointer
    \/ RC_Destroy

\* --------------------------------------------------------- DefaultDeleter
\* DefaultDeleter<T> (scalar form) and DefaultDeleter<T[]> (array form) applied
\* to pointer variables.  A variable is null or points to an object of its
\* own; an object is a single instance (new T) or an array of 1..MaxLen
\* elements (new T[n]) and records how often each element was destroyed.
MaxLen == 2

\* calls of the deleter modelled in one run
MaxCalls == 3

DD_Init ==
    [ instance  |-> [v \in Handles |-> Null],     \* the T *&instance argument
      form      |-> [r \in Resources |-> "none"], \* how the object was allocated
      destroyed |-> [r \in Resources |-> <<>>],   \* destructor runs per element
      calls     |-> 0,                            \* deleter calls made so far
      nObjects  |-> 0,
      fault     |-> NoFault ]

\* instance = new T (n = 1) or instance = new T[n]
DD_NewObject(S, v, form, n) ==
    LET r == S.nObjects + 1
    IN  [S EXCEPT !.nObjects = r, !.instance[v] = r, !.form[r] = form,
                  !.destroyed[r] = [i \in 1..n |-> 0]]

\* delete instance / delete[] instance: the destructor of every element runs
\* once; deleting an object a second time is undefined behaviour.
DD_Delete(S, r) ==
    IF \E i \in DOMAIN S.destroyed[r] : S.destroyed[r][i] > 0
    THEN [S EXCEPT !.fault = Undefined("delete of a released object")]
    ELSE [S EXCEPT !.destroyed[r] = [i \in DOMAIN @ |-> @[i] + 1]]

\* A deleter that frees the instance and leaves the pointer as it was.
DefaultDeleter_call_KeepPointer(S, v) ==
    IF S.instance[v] # Null THEN DD_Delete(S, S.instance[v]) ELSE S

\* DefaultDeleter<T>::operator()(T *&instance), and the same body with
\* delete[] in DefaultDeleter<T[]>::operator()(T *&instance)
DefaultDeleter_call(S, v) ==
    IF S.instance[v] # Null
    THEN LET S1 == DD_Delete(S, S.instance[v])
         IN  IF S1.fault # NoFault THEN S1 ELSE [S1 EXCEPT !.instance[v] = Null]
    ELSE S

DD_Running == dd.fault = NoFault

DD_Others == UNCHANGED <<ndebug, sp, up, scp, sa, rc, us, ar, th, ctr, er, asrt, pr, by, iv, sd, fn, st>>

\* T *p = new T;
DD_NewScalar(v) ==
    /\ DD_Running
    /\ dd.instance[v] = Null
    /\ dd.nObjects < MaxResources
    /\ dd' = DD_NewObject(dd, v, "scalar", 1)
    /\ DD_Others

\* T *p = new T[n];
DD_NewArray(v, n) ==
    /\ DD_Running
    /\ dd.instance[v] = Null
    /\ dd.nObjects < MaxResources
    /\ dd' = DD_NewObject(dd, v, "array", n)
    /\ DD_Others

\* DefaultDeleter<T> deleter; deleter(p);  p is null or points to a single
\* instance.
DD_ApplyScalar(v) ==
    /\ DD_Running
    /\ dd.calls < MaxCalls
    /\ dd.instance[v] # Null => dd.form[dd.instance[v]] = "scalar"
    /\ dd' = [DefaultDeleter_call(dd, v) EXCEPT !.calls = @ + 1]
    /\ DD_Others

\* DefaultDeleter<T[]> deleter; deleter(p);  p is null or points to an array.
DD_ApplyArray(v) ==
    /\ DD_Running
    /\ dd.calls < MaxCalls
    /\ dd.instance[v] # Null => dd.form[dd.instance[v]] = "array"
    /\ dd' = [DefaultDeleter_call(dd, v) EXCEPT !.calls = @ + 1]
    /\ DD_Others

DD_Next ==
    \/ \E v \in Handles : DD_NewScalar(v)
    \/ \E v \in Handles, n \in 1..MaxLen : DD_NewArray(v, n)
    \/ \E v \in Handles : DD_ApplyScalar(v)
    \/ \E v \in Handles : DD_ApplyArray(v)

\* ------------------------------------------- UniquePointer and subtypes
\* UniquePointer<DestructorSpy> ("Base") and
\* UniquePointer<DestructorSpySubclass> ("Derived") handles.  An object is
\* created with the type of the handle that first wraps it; a handle of type
\* Base receives a Derived object only through the move constructor or the
\* move assignment from UniquePointer<Subtype>.  Each object records the
\* destructors that ran on it, in order.
US_Types == {"Base", "Derived"}

\* Subtype * converts to T *
US_Converts(Subtype, T) == Subtype = T \/ (Subtype = "Derived" /\ T = "Base")

US_Init ==
    [ state      |-> [h \in Handles |-> "unborn"],
      htype      |-> [h \in Handles |-> "none"],    \* T of UniquePointer<T>
      raw        |-> [h \in Handles |-> Null],      \* _rawPointer
      dyn        |-> [r \in Resources |-> "none"],  \* class the object was created as
      calls      |-> [r \in Resources |-> <<>>],    \* destructors run on the object
      nResources |-> 0,
      ret        |-> Null,
      fault      |-> NoFault ]

US_NewResource(S, T) ==
    [S EXCEPT !.nResources = @ + 1, !.dyn[S.nResources + 1] = T]

\* The destructors a delete expression runs on an object of class T when the
\* destructor is dispatched on T: ~DestructorSpySubclass() then
\* ~DestructorSpy() for the subclass, ~DestructorSpy() for the base class.
US_Destructors(T) ==
    IF T = "Derived" THEN <<"~DestructorSpySubclass", "~DestructorSpy">>
    ELSE <<"~DestructorSpy">>

\* A delete that dispatches on the static type of the pointer.
US_Delete_StaticDispatch(S, h) ==
    IF S.calls[S.raw[h]] # <<>>
    THEN [S EXCEPT !.fault = Undefined("delete of a released resource")]
    ELSE [S EXCEPT !.calls[S.raw[h]] = US_Destructors(S.htype[h])]

\* delete instance, through a pointer of the handle's type T: ~DestructorSpy()
\* is virtual, so the destructors of the object's own class run.
US_Delete(S, h) ==
    IF S.calls[S.raw[h]] # <<>>
    THEN [S EXCEPT !.fault = Undefined("delete of a released resource")]
    ELSE [S EXCEPT !.calls[S.raw[h]] = US_Destructors(S.dyn[S.raw[h]])]

\* DefaultDeleter<T>::operator()(T *&instance) on the handle's _rawPointer
US_DefaultDeleter(S, h) ==
    IF S.raw[h] # Null
    THEN LET S1 == US_Delete(S, h)
         IN  IF S1.fault # NoFault THEN S1 ELSE [S1 EXCEPT !.raw[h] = Null]
    ELSE S

\* UniquePointer::expire
US_expire(S, h) == US_DefaultDeleter(S, h)

\* UniquePointer::reset(rawPointer)
US_reset(S, h, p) ==
    LET S1 == US_expire(S, h)
    IN  IF S1.fault # NoFault THEN S1 ELSE [S1 EXCEPT !.raw[h] = p]

\* UniquePointer(UniquePointer<Subtype> &&other)
US_move(S, h, T, other) ==
    LET S1 == UniquePointer_release(S, other)
    IN  [S1 EXCEPT !.state[h] = "live", !.htype[h] = T, !.raw[h] = S1.ret]

\* operator=(UniquePointer<Subtype> &&other)
US_moveAssign(S, h, other) ==
    LET S1 == UniquePointer_release(S, other)
    IN  US_reset(S1, h, S1.ret)

\* ~UniquePointer()
US_dtor(S, h) ==
    LET S1 == US_expire(S, h)
    IN  IF S1.fault # NoFault THEN S1 ELSE [S1 EXCEPT !.state[h] = "gone"]

US_Live(h) == us.state[h] = "live"

US_Running == us.fault = NoFault

US_NextSlot(h) ==
    /\ us.state[h] = "unborn"
    /\ \A g \in Handles : g < h => us.state[g] # "unborn"

US_Void(S) == [S EXCEPT !.ret = Null]

US_Others == UNCHANGED <<ndebug, sp, up, scp, sa, rc, dd, ar, th, ctr, er, asrt, pr, by, iv, sd, fn, st>>

\* UniquePointer<T> p(new T(..)) or UniquePointer<T> p
US_Construct(h, T, fresh) ==
    /\ US_Running /\ US_NextSlot(h)
    /\ fresh => us.nResources < MaxResources
    /\ LET S1 == IF fresh THEN US_NewResource(us, T) ELSE us
           p  == IF fresh THEN S1.nResources ELSE Null
       IN  us' = US_Void([S1 EXCEPT !.state[h] = "live", !.htype[h] = T,
                                    !.raw[h] = p])
    /\ US_Others

\* UniquePointer<T> p(std::move(other)), other a UniquePointer<Subtype>
US_MoveConstruct(h, T, other) ==
    /\ US_Running /\ US_NextSlot(h) /\ US_Live(other)
    /\ US_Converts(us.htype[other], T)
    /\ us' = US_Void(US_move(us, h, T, other))
    /\ US_Others

\* p = std::move(other), other a UniquePointer<Subtype>
US_MoveAssign(h, other) ==
    /\ US_Running /\ US_Live(h) /\ US_Live(other) /\ h # other
    /\ US_Converts(us.htype[other], us.htype[h])
    /\ us' = US_Void(US_moveAssign(us, h, other))
    /\ US_Others

US_Expire(h) ==
    /\ US_Running /\ US_Live(h)
    /\ us' = US_Void(US_expire(us, h))
    /\ US_Others

\* reset() and reset(new T(..))
US_Reset(h, fresh) ==
    /\ US_Running /\ US_Live(h)
    /\ fresh => us.nResources < MaxResources
    /\ LET S1 == IF fresh THEN US_NewResource(us, us.htype[h]) ELSE us
           p  == IF fresh THEN S1.nResources ELSE Null
       IN  us' = US_Void(US_reset(S1, h, p))
    /\ US_Others

US_Destroy(h) ==
    /\ US_Running /\ US_Live(h)
    /\ us' = US_Void(US_dtor(us, h))
    /\ US_Others

US_Next ==
    \/ \E h \in Handles, T \in US_Types, fresh \in BOOLEAN : US_Construct(h, T, fresh)
    \/ \E h, other \in Handles, T \in US_Types : US_MoveConstruct(h, T, other)
    \/ \E h, other \in Handles : US_MoveAssign(h, other)
    \/ \E h \in Handles : US_Expire(h)
    \/ \E h \in Handles, fresh \in BOOLEAN : US_Reset(h, fresh)
    \/ \E h \in Handles : US_Destroy(h)

\* ------------------------------------------------ array-owning handles
\* One array of len elements (new T[len]) wrapped in a handle of one of the
\* five array-owning classes, then copied (the shared classes), moved (the
\* classes with a move constructor) and destroyed.  The array records how
\* often the destructor of each element ran.
AR_Flavors ==
    {"SharedPointer<T[]>", "UniquePointer<T[]>", "ScopedPointer<T[]>",
     "SharedArray", "ScopedArray"}

AR_Init ==
    [ flavor    |-> "none",                        \* class of the handles
      len       |-> 0,                             \* elements of the array
      state     |-> [h \in Handles |-> "unborn"],
      holds     |-> [h \in Handles |-> FALSE],     \* h refers to the array (its counter)
      count     |-> 0,                             \* reference count (shared classes)
      destroyed |-> <<>>,                          \* destructor runs per element
      fault     |-> NoFault ]

\* A table in which SharedPointer<T[]> frees with the scalar deleter.
AR_Deleter_ScalarInSharedPointer(flavor) ==
    IF flavor = "SharedPointer<T[]>" THEN "delete" ELSE "delete[]"

\* The delete expression the destructor of each class ends in:
\* DefaultDeleter<T[]> (SharedPointer<T[]>, UniquePointer<T[]>,
\* ScopedPointer<T[]>), VectorDestructor<T> (SharedArray) and
\* checkedDeleteArray (ScopedArray) all use delete[].
AR_Deleter(flavor) == "delete[]"

\* The deleter applied to the non-null array pointer: delete[] destroys every
\* element once; delete on an array, or a second delete[], is undefined.
AR_Delete(S) ==
    IF AR_Deleter(S.flavor) # "delete[]"
    THEN [S EXCEPT !.fault = Undefined("delete of an array allocated with new[]")]
    ELSE IF \E i \in DOMAIN S.destroyed : S.destroyed[i] > 0
         THEN [S EXCEPT !.fault = Undefined("delete[] of a released array")]
         ELSE [S EXCEPT !.destroyed = [i \in DOMAIN @ |-> @[i] + 1]]

AR_NextSlot(h) ==
    /\ ar.fault = NoFault
    /\ ar.state[h] = "unborn"
    /\ \A g \in Handles : g < h => ar.state[g] # "unborn"

AR_Others == UNCHANGED <<ndebug, sp, up, scp, sa, rc, dd, us, th, ctr, er, asrt, pr, by, iv, sd, fn, st>>

\* Handle<..> a(new T[n]): the first handle of the run wraps a new array.
AR_Construct(flavor, n) ==
    /\ AR_NextSlot(1)
    /\ ar' = [ar EXCEPT !.flavor = flavor, !.len = n, !.state[1] = "live",
                        !.holds[1] = TRUE, !.count = 1,
                        !.destroyed = [i \in 1..n |-> 0]]
    /\ AR_Others

\* Copy constructor of SharedPointer<T[]> and SharedArray from a handle that
\* refers to the array: shares the counter and increments it.
AR_Copy(h, other) ==
    /\ AR_NextSlot(h)
    /\ ar.flavor \in {"SharedPointer<T[]>", "SharedArray"}
    /\ ar.state[other] = "live" /\ ar.holds[other]
    /\ ar' = [ar EXCEPT !.state[h] = "live", !.holds[h] = TRUE, !.count = @ + 1]
    /\ AR_Others

\* Move constructor of SharedPointer<T[]>, UniquePointer<T[]> and SharedArray:
\* the new handle takes the counter / the pointer, the source keeps none.
AR_Move(h, other) ==
    /\ AR_NextSlot(h)
    /\ ar.flavor \in {"SharedPointer<T[]>", "UniquePointer<T[]>", "SharedArray"}
    /\ ar.state[other] = "live"
    /\ ar' = [ar EXCEPT !.state[h] = "live", !.holds[h] = ar.holds[other],
                        !.holds[other] = FALSE]
    /\ AR_Others

\* The handle goes out of scope.  The shared classes decrement the counter and
\* free when it was the last reference; the others apply the deleter, which
\* frees when the pointer is not null.
AR_Destroy(h) ==
    /\ ar.fault = NoFault
    /\ ar.state[h] = "live"
    /\ LET S1 == [ar EXCEPT !.state[h] = "gone", !.holds[h] = FALSE]
       IN  ar' = IF ~ar.holds[h] THEN S1
                 ELSE IF ar.flavor \in {"SharedPointer<T[]>", "SharedArray"}
                      THEN IF ar.count = 1
                           THEN AR_Delete([S1 EXCEPT !.count = 0])
                           ELSE [S1 EXCEPT !.count = @ - 1]
                      ELSE AR_Delete(S1)
    /\ AR_Others

AR_Next ==
    \/ \E flavor \in AR_Flavors, n \in 1..MaxLen : AR_Construct(flavor, n)
    \/ \E h, other \in Handles : AR_Copy(h, other)
    \/ \E h, other \in Handles : AR_Move(h, other)
    \/ \E h \in Handles : AR_Destroy(h)

\* ------------------------------------------ SharedPointer handles in threads
\* NumThreads threads without a lock.  Before they start, one resource is
\* wrapped in a SharedPointer and copied once per thread, so each thread owns
\* a handle and all share one Counter.  Each thread copies and destroys its
\* own handles; Counter::increment and Counter::decrement are executed as the
\* separate reads and writes of _count that their statements are.
NumThreads == 2

Threads == 1..NumThreads

TH_Init ==
    [ count    |-> NumThreads,                     \* Counter::_count
      counterDeleted |-> FALSE,                    \* delete _counter has run
      released |-> 0,                              \* times the deleter freed the resource
      state    |-> [h \in Handles |-> IF h \in Threads THEN "live" ELSE "unborn"],
      owner    |-> [h \in Handles |-> IF h \in Threads THEN h ELSE 0],
      pc       |-> [t \in Threads |-> "idle"],
      cur      |-> [t \in Threads |-> 0],          \* handle the thread is working on
      value    |-> [t \in Threads |-> 0],          \* auto value = _count
      tmp      |-> [t \in Threads |-> 0],          \* _count as loaded by _count++ / _count--
      raced    |-> FALSE,   \* a write of another thread fell between a thread's read and its write
      fault    |-> NoFault ]

\* A release test that takes the handle for the last one at a count of two.
TH_LastReference_AtTwo(value) == value = 2

\* if(1 == _counter->decrement())
TH_LastReference(value) == value = 1

\* Access to _counter->_count: undefined once the Counter has been deleted.
TH_Counter(S) ==
    IF S.counterDeleted
    THEN [S EXCEPT !.fault = Undefined("access to a deleted Counter")]
    ELSE S

TH_Others == UNCHANGED <<ndebug, sp, up, scp, sa, rc, dd, us, ar, ctr, er, asrt, pr, by, iv, sd, fn, st>>

TH_At(t, label) == th.fault = NoFault /\ th.pc[t] = label

\* SharedPointer(const SharedPointer &other): _counter(other._counter),
\* _rawPointer(other._rawPointer); the call of increment() follows.
TH_CopyBegin(t, h, other) ==
    /\ TH_At(t, "idle")
    /\ th.state[h] = "unborn" /\ \A g \in Handles : g < h => th.state[g] # "unborn"
    /\ th.state[other] = "live" /\ th.owner[other] = t
    /\ th' = [th EXCEPT !.state[h] = "live", !.owner[h] = t,
                        !.cur[t] = h, !.pc[t] = "inc_read"]
    /\ TH_Others

\* Counter::increment: auto value = _count;
TH_IncRead(t) ==
    /\ TH_At(t, "inc_read")
    /\ th' = [TH_Counter(th) EXCEPT !.value[t] = th.count, !.pc[t] = "inc_load"]
    /\ TH_Others

\* Counter::increment: _count++ (load)
TH_IncLoad(t) ==
    /\ TH_At(t, "inc_load")
    /\ th' = [TH_Counter(th) EXCEPT !.tmp[t] = th.count, !.pc[t] = "inc_store",
                                    !.raced = @ \/ th.count # th.value[t]]
    /\ TH_Others

\* Counter::increment: _count++ (store); return value; the copy is complete.
TH_IncStore(t) ==
    /\ TH_At(t, "inc_store")
    /\ th' = [TH_Counter(th) EXCEPT !.count = th.tmp[t] + 1,
                                    !.raced = @ \/ th.count # th.tmp[t],
                                    !.pc[t] = "idle", !.cur[t] = 0,
                                    !.value[t] = 0, !.tmp[t] = 0]
    /\ TH_Others

\* ~SharedPointer(): expire(): if(_counter != nullptr) .. _counter->decrement()
TH_DestroyBegin(t, h) ==
    /\ TH_At(t, "idle")
    /\ th.state[h] = "live" /\ th.owner[h] = t
    /\ th' = [th EXCEPT !.cur[t] = h, !.pc[t] = "dec_read"]
    /\ TH_Others

\* Counter::decrement: auto value = _count;
TH_DecRead(t) ==
    /\ TH_At(t, "dec_read")
    /\ th' = [TH_Counter(th) EXCEPT !.value[t] = th.count, !.pc[t] = "dec_load"]
    /\ TH_Others

\* Counter::decrement: if(_count > 0) _count-- (test and load)
TH_DecLoad(t) ==
    /\ TH_At(t, "dec_load")
    /\ th' = [TH_Counter(th) EXCEPT !.tmp[t] = th.count,
                                    !.raced = @ \/ th.count # th.value[t],
                                    !.pc[t] = IF th.count > 0 THEN "dec_store"
                                              ELSE "expire"]
    /\ TH_Others

\* Counter::decrement: _count-- (store); return value;
TH_DecStore(t) ==
    /\ TH_At(t, "dec_store")
    /\ th' = [TH_Counter(th) EXCEPT !.count = th.tmp[t] - 1,
                                    !.raced = @ \/ th.count # th.tmp[t],
                                    !.pc[t] = "expire"]
    /\ TH_Others

\* expire(): if(1 == value) { delete _counter; deleter(_rawPointer); }
\* _counter = nullptr; and the handle is gone.
TH_ExpireEnd(t) ==
    /\ TH_At(t, "expire")
    /\ LET S1 == [th EXCEPT !.state[th.cur[t]] = "gone", !.pc[t] = "idle",
                            !.cur[t] = 0, !.value[t] = 0, !.tmp[t] = 0]
       IN  th' = IF ~TH_LastReference(th.value[t]) THEN S1
                 ELSE IF th.counterDeleted \/ th.released > 0
                      THEN [S1 EXCEPT !.fault = Undefined("delete of a deleted Counter")]
                      ELSE [S1 EXCEPT !.counterDeleted = TRUE, !.released = 1]
    /\ TH_Others

TH_Next ==
    \/ \E t \in Threads, h, other \in Handles : TH_CopyBegin(t, h, other)
    \/ \E t \in Threads : TH_IncRead(t)
    \/ \E t \in Threads : TH_IncLoad(t)
    \/ \E t \in Threads : TH_IncStore(t)
    \/ \E t \in Threads, h \in Handles : TH_DestroyBegin(t, h)
    \/ \E t \in Threads : TH_DecRead(t)
    \/ \E t \in Threads : TH_DecLoad(t)
    \/ \E t \in Threads : TH_DecStore(t)
    \/ \E t \in Threads : TH_ExpireEnd(t)

\* One Counter object, constructed with an initial value and then incremented
\* and decremented, MaxIncs times in all.  The initial values are the size_t
\* values within 2 * MaxIncs of 0 and of SIZE_MAX.
CT_Init == [state |-> "unborn", count |-> 0, ret |-> 0, ops |-> 0]

CT_Others == UNCHANGED <<ndebug, sp, up, scp, sa, rc, dd, us, ar, th, er, asrt, pr, by, iv, sd, fn, st>>

\* Counter counter(initial)
CT_Construct(initial) ==
    /\ ctr.state = "unborn"
    /\ ctr' = [ctr EXCEPT !.state = "live", !.count = initial]
    /\ CT_Others

\* counter.increment()
CT_Increment ==
    /\ ctr.state = "live" /\ ctr.ops < MaxIncs
    /\ LET r == Counter_increment(ctr.count)
       IN  ctr' = [ctr EXCEPT !.count = r.count, !.ret = r.ret, !.ops = @ + 1]
    /\ CT_Others

\* counter.decrement()
CT_Decrement ==
    /\ ctr.state = "live" /\ ctr.ops < MaxIncs
    /\ LET r == Counter_decrement(ctr.count)
       IN  ctr' = [ctr EXCEPT !.count = r.count, !.ret = r.ret, !.ops = @ + 1]
    /\ CT_Others

CT_Next ==
    \/ \E initial \in (SizeT_Max - 2 * MaxIncs)..(2 * MaxIncs) : CT_Construct(initial)
    \/ CT_Increment
    \/ CT_Decrement

\* ------------------------------------------------------------------ Error
\* One Error object E with its member _cause, a SharedPointer<Error>.  The
\* handles are: 1, the caller's handle c to the error that is the cause;
\* 2, E._cause; 3, the temporary of the call in progress (the by-value
\* parameter of the constructor, the value returned by cause()).  The record
\* has the fields of the SharedPointer machine, whose operators it uses.
ER_Init ==
    [ state     |-> [h \in Handles |-> "unborn"],
      counter   |-> [h \in Handles |-> Null],
      raw       |-> [h \in Handles |-> Null],
      count     |-> [c \in Counters |-> 0],
      deleted   |-> [c \in Counters |-> 0],
      nCounters |-> 0,
      released  |-> [r \in Resources |-> 0],
      nResources |-> 0,
      ret       |-> Null,
      given     |-> Null,      \* the error E was constructed with as its cause
      calls     |-> 0,         \* calls of E.cause() so far
      fault     |-> NoFault ]

\* SharedPointer<Error>(p): new Counter(1) and the raw pointer
ER_Wrap(S, h, p) ==
    [SP_NewCounter(S, h) EXCEPT !.state[h] = "live", !.raw[h] = p]

\* The temporary goes out of scope; its slot is free for the next call.
ER_DropTemporary(S) ==
    LET S1 == SharedPointer_dtor(S, 3)
    IN  IF S1.fault # NoFault THEN S1 ELSE [S1 EXCEPT !.state[3] = "unborn"]

\* Error::Error(): _cause(SharedPointer<Error>(nullptr))
Error_ctor(S) ==
    ER_DropTemporary(SharedPointer_move(ER_Wrap(S, 3, Null), 2, 3))

\* Error::Error(SharedPointer<Error> cause): the parameter is a copy of the
\* caller's handle; _cause(move(cause))
Error_ctorCause(S) ==
    LET S1 == SharedPointer_copy(S, 3, 1)
    IN  IF S1.fault # NoFault THEN S1
        ELSE ER_DropTemporary(SharedPointer_move([S1 EXCEPT !.given = S.raw[1]], 2, 3))

\* A cause() that hands out the member itself instead of a copy.
Error_cause_MovesOut(S) ==
    LET S1 == SharedPointer_move(S, 3, 2)
    IN  [S1 EXCEPT !.ret = S1.raw[3], !.raw[2] = Null]

\* Error::cause(): return _cause (a copy)
Error_cause(S) ==
    LET S1 == SharedPointer_copy(S, 3, 2)
    IN  IF S1.fault # NoFault THEN S1 ELSE [S1 EXCEPT !.ret = S1.raw[3]]

ER_Others == UNCHANGED <<ndebug, sp, up, scp, sa, rc, dd, us, ar, th, ctr, asrt, pr, by, iv, sd, fn, st>>

ER_Idle == er.fault = NoFault /\ er.state[3] = "unborn"

\* SharedPointer<Error> c(new SomeError) or c(nullptr), in the caller
ER_MakeCause(fresh) ==
    /\ ER_Idle /\ er.state[1] = "unborn"
    /\ LET S1 == IF fresh THEN SP_NewResource(er) ELSE er
           p  == IF fresh THEN S1.nResources ELSE Null
       IN  er' = ER_Wrap(S1, 1, p)
    /\ ER_Others

\* SomeError E;
ER_Construct ==
    /\ ER_Idle /\ er.state[2] = "unborn"
    /\ er' = Error_ctor(er)
    /\ ER_Others

\* SomeError E(c);
ER_ConstructWithCause ==
    /\ ER_Idle /\ er.state[2] = "unborn" /\ er.state[1] = "live"
    /\ er' = Error_ctorCause(er)
    /\ ER_Others

\* The caller's handle c goes out of scope.
ER_DropCallerHandle ==
    /\ ER_Idle /\ er.state[1] = "live"
    /\ er' = SharedPointer_dtor(er, 1)
    /\ ER_Others

\* E.cause(): the returned handle is held by the caller until ER_DropResult.
ER_Cause ==
    /\ ER_Idle /\ er.state[2] = "live" /\ er.calls < MaxCalls
    /\ er' = [Error_cause(er) EXCEPT !.calls = @ + 1]
    /\ ER_Others

\* The handle returned by cause() goes out of scope.
ER_DropResult ==
    /\ er.fault = NoFault /\ er.state[3] = "live"
    /\ er' = [ER_DropTemporary(er) EXCEPT !.ret = Null]
    /\ ER_Others

\* ~Error(): the member _cause is destroyed.
ER_Destroy ==
    /\ ER_Idle /\ er.state[2] = "live"
    /\ er' = SharedPointer_dtor(er, 2)
    /\ ER_Others

ER_Next ==
    \/ \E fresh \in BOOLEAN : ER_MakeCause(fresh)
    \/ ER_Construct
    \/ ER_ConstructWithCause
    \/ ER_DropCallerHandle
    \/ ER_Cause
    \/ ER_DropResult
    \/ ER_Destroy

\* ---------------------------------------------------- ASSERT and ASSERTF
\* A program that runs up to MaxCalls statements, each an ASSERT(condition),
\* an ASSERTF(condition, message) or an ordinary statement.  An assertion is
\* given by the macro, the value of its condition and whether the text of the
\* condition holds a printf conversion (as in ASSERT(strcmp(s, "%s") == 0)):
\* both macros paste #condition into the format string of fprintf.
AS_Macros == {"ASSERT", "ASSERTF"}

AS_Init ==
    [ prog   |-> <<>>,         \* the statements run so far
      ran    |-> 0,            \* ordinary statements among them
      stderr |-> <<>>,         \* diagnostics printed
      fault  |-> NoFault ]

\* The macro's expansion when the condition is false in a debug build:
\* fprintf(stderr, "Assertion failed: " #condition ..) and, for ASSERTF, the
\* message; then abort().  A conversion in #condition has no argument to go
\* with it, which is undefined behaviour in fprintf.
AS_Fail(S, macro, conversion) ==
    IF conversion
    THEN [S EXCEPT !.fault =
             Undefined("fprintf with a conversion in #condition and no argument")]
    ELSE [S EXCEPT !.stderr = Append(@, macro), !.fault = Abort(macro)]

\* ASSERT(condition) / ASSERTF(condition, message): ((void)0) under NDEBUG,
\* otherwise if(!(condition)) { fprintf ..; abort(); }
AS_Expand(S, macro, condition, conversion) ==
    IF ASSERTF(condition, macro) = NoFault THEN S
    ELSE AS_Fail(S, macro, conversion)

AS_Others == UNCHANGED <<ndebug, sp, up, scp, sa, rc, dd, us, ar, th, ctr, er, pr, by, iv, sd, fn, st>>

AS_Running == asrt.fault = NoFault /\ Len(asrt.prog) < MaxCalls

\* An ASSERT or ASSERTF statement runs.
AS_Assert(macro, condition, conversion) ==
    /\ AS_Running
    /\ asrt' = [AS_Expand(asrt, macro, condition, conversion)
                   EXCEPT !.prog = Append(@, macro)]
    /\ AS_Others

\* The statement that follows runs.
AS_Statement ==
    /\ AS_Running
    /\ asrt' = [asrt EXCEPT !.prog = Append(@, "statement"), !.ran = @ + 1]
    /\ AS_Others

AS_Next ==
    \/ \E macro \in AS_Macros, condition, conversion \in BOOLEAN :
          AS_Assert(macro, condition, conversion)
    \/ AS_Statement

\* ------------------------------------------------------------------- Pair
\* Pair<T1, T2> over the integers 0..MaxIncs, a totally ordered component
\* type.  Two pairs are constructed and compared.
PR_Values == 0..MaxIncs

PR_Init ==
    [ op  |-> "none",                          \* the comparison made
      a   |-> [first |-> 0, second |-> 0],     \* *this
      b   |-> [first |-> 0, second |-> 0],     \* other
      ret |-> FALSE,
      fault |-> NoFault ]

\* Pair::operator==
Pair_eq(a, b) == a.first = b.first /\ a.second = b.second

\* A less-than that does not look at the order of the first values the other
\* way round.
Pair_lt_Unguarded(a, b) == a.first < b.first \/ a.second < b.second

\* Pair::operator<
Pair_lt(a, b) ==
    a.first < b.first \/ (~(b.first < a.first) /\ a.second < b.second)

PR_Others ==
    UNCHANGED <<ndebug, sp, up, scp, sa, rc, dd, us, ar, th, ctr, er, asrt,
                by, iv, sd, fn, st>>

\* Pair<int, int> a(a1, a2), b(b1, b2); a == b
PR_Equal(a1, a2, b1, b2) ==
    /\ pr.op = "none"
    /\ LET a == [first |-> a1, second |-> a2]
           b == [first |-> b1, second |-> b2]
       IN  pr' = [op |-> "==", a |-> a, b |-> b, ret |-> Pair_eq(a, b),
                  fault |-> NoFault]
    /\ PR_Others

\* Pair<int, int> a(a1, a2), b(b1, b2); a < b
PR_Less(a1, a2, b1, b2) ==
    /\ pr.op = "none"
    /\ LET a == [first |-> a1, second |-> a2]
           b == [first |-> b1, second |-> b2]
       IN  pr' = [op |-> "<", a |-> a, b |-> b, ret |-> Pair_lt(a, b),
                  fault |-> NoFault]
    /\ PR_Others

PR_Next ==
    \/ \E a1, a2, b1, b2 \in PR_Values : PR_Equal(a1, a2, b1, b2)
    \/ \E a1, a2, b1, b2 \in PR_Values : PR_Less(a1, a2, b1, b2)

\* Pair::operator>: other < *this
Pair_gt(a, b) == Pair_lt(b, a)

\* Pair::operator<=: !(other < *this)
Pair_le(a, b) == ~Pair_lt(b, a)

\* Pair::operator>=: !(*this < other)
Pair_ge(a, b) == ~Pair_lt(a, b)

\* Pair::operator!=: !(this == other).  this is a pointer and other a Pair;
\* no operator== takes the two, so the function has no value: a program that
\* calls it does not compile.
Pair_ne(a, b) == IllFormed("no operator== for const Pair * and const Pair")

\* Pair<int, int> a(a1, a2), b(b1, b2); a > b, a <= b, a >= b
PR_Derived(op, a1, a2, b1, b2) ==
    /\ pr.op = "none"
    /\ LET a == [first |-> a1, second |-> a2]
           b == [first |-> b1, second |-> b2]
       IN  pr' = [op |-> op, a |-> a, b |-> b,
                  ret |-> CASE op = ">"  -> Pair_gt(a, b)
                            [] op = "<=" -> Pair_le(a, b)
                            [] op = ">=" -> Pair_ge(a, b),
                  fault |-> NoFault]
    /\ PR_Others

\* Pair<int, int> a(a1, a2), b(b1, b2); a != b
PR_NotEqual(a1, a2, b1, b2) ==
    /\ pr.op = "none"
    /\ LET a == [first |-> a1, second |-> a2]
           b == [first |-> b1, second |-> b2]
       IN  pr' = [op |-> "!=", a |-> a, b |-> b, ret |-> FALSE,
                  fault |-> Pair_ne(a, b)]
    /\ PR_Others

PRAll_Next ==
    \/ PR_Next
    \/ \E op \in {">", "<=", ">="}, a1, a2, b1, b2 \in PR_Values :
          PR_Derived(op, a1, a2, b1, b2)
    \/ \E a1, a2, b1, b2 \in PR_Values : PR_NotEqual(a1, a2, b1, b2)

\* ------------------------------------------------------------------- byte
\* enum class byte : uint8.  The operators convert the byte to uint8, which
\* the integral promotions make an int, operate on the int and convert the
\* int result back to byte.
ByteBits == 8
MaxShift == 8
Bytes == 0..(2^ByteBits - 1)

\* A conversion that saturates at the largest byte instead of wrapping.
Byte_fromInt_Saturating(x) ==
    IF x > 2^ByteBits - 1 THEN 2^ByteBits - 1 ELSE IF x < 0 THEN 0 ELSE x

\* byte(x): an int converted to the enumeration through its underlying type
\* uint8, which keeps the value modulo 2^8.
Byte_fromInt(x) == x % (2^ByteBits)

\* x | y, x & y and x ^ y on non-negative ints, bit by bit from the lowest.
RECURSIVE Int_or(_, _)
Int_or(x, y) ==
    IF x = 0 /\ y = 0 THEN 0
    ELSE (IF x % 2 = 1 \/ y % 2 = 1 THEN 1 ELSE 0)
         + 2 * Int_or(x \div 2, y \div 2)

RECURSIVE Int_and(_, _)
Int_and(x, y) ==
    IF x = 0 \/ y = 0 THEN 0
    ELSE (IF x % 2 = 1 /\ y % 2 = 1 THEN 1 ELSE 0)
         + 2 * Int_and(x \div 2, y \div 2)

RECURSIVE Int_xor(_, _)
Int_xor(x, y) ==
    IF x = 0 /\ y = 0 THEN 0
    ELSE (IF x % 2 # y % 2 THEN 1 ELSE 0) + 2 * Int_xor(x \div 2, y \div 2)

\* ~x on an int in two's complement.
Int_not(x) == -1 - x

\* x << shift and x >> shift on a non-negative int.
Int_shl(x, shift) == x * 2^shift
Int_shr(x, shift) == x \div 2^shift

\* operator<<, operator>>, operator|, operator&, operator^, operator~
Byte_shl(b, shift) == Byte_fromInt(Int_shl(b, shift))
Byte_shr(b, shift) == Byte_fromInt(Int_shr(b, shift))
Byte_or(b, v)  == Byte_fromInt(Int_or(b, v))
Byte_and(b, v) == Byte_fromInt(Int_and(b, v))
Byte_xor(b, v) == Byte_fromInt(Int_xor(b, v))
Byte_not(b)    == Byte_fromInt(Int_not(b))

BY_Init == [op |-> "none", b |-> 0, v |-> 0, ret |-> 0, stored |-> 0]

BY_Others ==
    UNCHANGED <<ndebug, sp, up, scp, sa, rc, dd, us, ar, th, ctr, er, asrt,
                pr, iv, sd, fn, st>>

\* The state after an operator returned ret: the binary form leaves its
\* operand b alone, the compound form assigns the result to b and returns b.
BY_Result(op, b, v, ret, compound) ==
    [op |-> op, b |-> b, v |-> v, ret |-> ret,
     stored |-> IF compound THEN ret ELSE b]

\* b << shift
BY_ShiftLeft(b, shift) ==
    /\ by.op = "none"
    /\ by' = BY_Result("<<", b, shift, Byte_shl(b, shift), FALSE)
    /\ BY_Others

\* b <<= shift
BY_ShiftLeftAssign(b, shift) ==
    /\ by.op = "none"
    /\ by' = BY_Result("<<=", b, shift, Byte_shl(b, shift), TRUE)
    /\ BY_Others

\* b >> shift
BY_ShiftRight(b, shift) ==
    /\ by.op = "none"
    /\ by' = BY_Result(">>", b, shift, Byte_shr(b, shift), FALSE)
    /\ BY_Others

\* b >>= shift
BY_ShiftRightAssign(b, shift) ==
    /\ by.op = "none"
    /\ by' = BY_Result(">>=", b, shift, Byte_shr(b, shift), TRUE)
    /\ BY_Others

\* b | v
BY_Or(b, v) ==
    /\ by.op = "none"
    /\ by' = BY_Result("|", b, v, Byte_or(b, v), FALSE)
    /\ BY_Others

\* b |= v
BY_OrAssign(b, v) ==
    /\ by.op = "none"
    /\ by' = BY_Result("|=", b, v, Byte_or(b, v), TRUE)
    /\ BY_Others

\* b & v
BY_And(b, v) ==
    /\ by.op = "none"
    /\ by' = BY_Result("&", b, v, Byte_and(b, v), FALSE)
    /\ BY_Others

\* b &= v
BY_AndAssign(b, v) ==
    /\ by.op = "none"
    /\ by' = BY_Result("&=", b, v, Byte_and(b, v), TRUE)
    /\ BY_Others

\* b ^ v
BY_Xor(b, v) ==
    /\ by.op = "none"
    /\ by' = BY_Result("^", b, v, Byte_xor(b, v), FALSE)
    /\ BY_Others

\* b ^= v
BY_XorAssign(b, v) ==
    /\ by.op = "none"
    /\ by' = BY_Result("^=", b, v, Byte_xor(b, v), TRUE)
    /\ BY_Others

\* ~b
BY_Not(b) ==
    /\ by.op = "none"
    /\ by' = BY_Result("~", b, 0, Byte_not(b), FALSE)
    /\ BY_Others

\* One operator is applied to each pair of operands.
BY_Idle == by.op = "none"

BY_Next ==
    /\ BY_Idle
    /\ \/ \E b \in Bytes, shift \in 0..MaxShift : BY_ShiftLeft(b, shift)
       \/ \E b \in Bytes, shift \in 0..MaxShift : BY_ShiftLeftAssign(b, shift)
       \/ \E b \in Bytes, shift \in 0..MaxShift : BY_ShiftRight(b, shift)
       \/ \E b \in Bytes, shift \in 0..MaxShift : BY_ShiftRightAssign(b, shift)
       \/ \E b \in Bytes, v \in Bytes : BY_Or(b, v)
       \/ \E b \in Bytes, v \in Bytes : BY_OrAssign(b, v)
       \/ \E b \in Bytes, v \in Bytes : BY_And(b, v)
       \/ \E b \in Bytes, v \in Bytes : BY_AndAssign(b, v)
       \/ \E b \in Bytes, v \in Bytes : BY_Xor(b, v)
       \/ \E b \in Bytes, v \in Bytes : BY_XorAssign(b, v)
       \/ \E b \in Bytes : BY_Not(b)

\* ------------------------------------------------------------- integer.h
\* minValue<T>() and maxValue<T>() of the fixed-width integer types.  The
\* values do not fit the integers of the model checker: an integer is a sign
\* and a magnitude written in base 2^8, lowest digit first, without zero
\* digits at the high end (zero is the empty magnitude).
IV_Types ==
    {"int8", "uint8", "int16", "uint16", "int32", "uint32", "int64", "uint64"}
IV_Queries == {"minValue", "maxValue"}

\* typedef int8_t int8; .. typedef uint64_t uint64;
IV_Signed(T) == T \in {"int8", "int16", "int32", "int64"}
IV_Bytes(T) ==
    CASE T \in {"int8", "uint8"} -> 1
      [] T \in {"int16", "uint16"} -> 2
      [] T \in {"int32", "uint32"} -> 4
      [] T \in {"int64", "uint64"} -> 8

Big(neg, mag) == [neg |-> neg, mag |-> mag]

\* The limit macros of <cstdint> and the literal 0.
Cstdint(macro) ==
    CASE macro = "0"          -> Big(FALSE, <<>>)
      [] macro = "INT8_MIN"   -> Big(TRUE,  <<128>>)
      [] macro = "INT8_MAX"   -> Big(FALSE, <<127>>)
      [] macro = "UINT8_MAX"  -> Big(FALSE, <<255>>)
      [] macro = "INT16_MIN"  -> Big(TRUE,  <<0, 128>>)
      [] macro = "INT16_MAX"  -> Big(FALSE, <<255, 127>>)
      [] macro = "UINT16_MAX" -> Big(FALSE, <<255, 255>>)
      [] macro = "INT32_MIN"  -> Big(TRUE,  <<0, 0, 0, 128>>)
      [] macro = "INT32_MAX"  -> Big(FALSE, <<255, 255, 255, 127>>)
      [] macro = "UINT32_MAX" -> Big(FALSE, <<255, 255, 255, 255>>)
      [] macro = "INT64_MIN"  -> Big(TRUE,  <<0, 0, 0, 0, 0, 0, 0, 128>>)
      [] macro = "INT64_MAX"  ->
             Big(FALSE, <<255, 255, 255, 255, 255, 255, 255, 127>>)
      [] macro = "UINT64_MAX" ->
             Big(FALSE, <<255, 255, 255, 255, 255, 255, 255, 255>>)

\* The low n digits of a magnitude, padded with zero digits.
Big_pad(mag, n) == [i \in 1..n |-> IF i <= Len(mag) THEN mag[i] ELSE 0]

\* A digit sequence without its zero digits at the high end.
RECURSIVE Big_norm(_)
Big_norm(digits) ==
    IF digits = <<>> \/ digits[Len(digits)] # 0 THEN digits
    ELSE Big_norm(SubSeq(digits, 1, Len(digits) - 1))

\* digits + 1 on a fixed number of digits; the carry out of the top is lost.
RECURSIVE Big_inc(_)
Big_inc(digits) ==
    IF digits = <<>> THEN <<>>
    ELSE IF Head(digits) = 2^ByteBits - 1
         THEN <<0>> \o Big_inc(Tail(digits))
         ELSE <<Head(digits) + 1>> \o Tail(digits)

\* Two's complement negation on a fixed number of digits.
Big_negate(digits) ==
    Big_inc([i \in 1..Len(digits) |-> 2^ByteBits - 1 - digits[i]])

\* The return statement converts the value to the return type T: the value
\* modulo 2^w, read as signed when T is signed.
Big_convert(T, v) ==
    LET n    == IV_Bytes(T)
        bits == IF v.neg THEN Big_negate(Big_pad(v.mag, n))
                ELSE Big_pad(v.mag, n)
    IN  IF IV_Signed(T) /\ bits[n] >= 2^(ByteBits - 1)
        THEN Big(TRUE, Big_norm(Big_negate(bits)))
        ELSE Big(FALSE, Big_norm(bits))

\* A table in which minValue of the unsigned types is the signed minimum of
\* the same width.
minValue_SignedEverywhere(T) ==
    Big_convert(T,
        Cstdint(CASE IV_Bytes(T) = 1 -> "INT8_MIN"
                  [] IV_Bytes(T) = 2 -> "INT16_MIN"
                  [] IV_Bytes(T) = 4 -> "INT32_MIN"
                  [] IV_Bytes(T) = 8 -> "INT64_MIN"))

\* template<> inline constexpr T minValue() noexcept
minValue(T) ==
    Big_convert(T,
        Cstdint(CASE T = "int8"   -> "INT8_MIN"
                  [] T = "uint8"  -> "0"
                  [] T = "int16"  -> "INT16_MIN"
                  [] T = "uint16" -> "0"
                  [] T = "int32"  -> "INT32_MIN"
                  [] T = "uint32" -> "0"
                  [] T = "int64"  -> "INT64_MIN"
                  [] T = "uint64" -> "0"))

\* template<> inline constexpr T maxValue() noexcept
maxValue(T) ==
    Big_convert(T,
        Cstdint(CASE T = "int8"   -> "INT8_MAX"
                  [] T = "uint8"  -> "UINT8_MAX"
                  [] T = "int16"  -> "INT16_MAX"
                  [] T = "uint16" -> "UINT16_MAX"
                  [] T = "int32"  -> "INT32_MAX"
                  [] T = "uint32" -> "UINT32_MAX"
                  [] T = "int64"  -> "INT64_MAX"
                  [] T = "uint64" -> "UINT64_MAX"))

\* No query has been made.
IV_Init == [calls |-> <<>>]

IV_Others ==
    UNCHANGED <<ndebug, sp, up, scp, sa, rc, dd, us, ar, th, ctr, er, asrt,
                pr, by, sd, fn, st>>

IV_Call(T, query, ret) ==
    /\ Len(iv.calls) < MaxLen
    /\ iv' = [calls |->
                Append(iv.calls, [type |-> T, query |-> query, ret |-> ret])]
    /\ IV_Others

\* minValue<T>()
IV_MinValue(T) == IV_Call(T, "minValue", minValue(T))

\* maxValue<T>()
IV_MaxValue(T) == IV_Call(T, "maxValue", maxValue(T))

IV_Next ==
    \/ \E T \in IV_Types : IV_MinValue(T)
    \/ \E T \in IV_Types : IV_MaxValue(T)

\* ---------------------------------------------- ScopedPointer and deleters
\* ScopedPointer<T, Deleter> with a Deleter type whose instances can be told
\* apart: every handle keeps its own copy of the deleter it was constructed
\* with, and every call of a deleter is logged with the pointer it was given.
MaxDeleters == 2
SD_Deleters == 1..MaxDeleters
SD_DefaultDeleter == 0

SD_Init ==
    [ state      |-> [h \in Handles |-> "unborn"],
      ptr        |-> [h \in Handles |-> Null],               \* _ptr
      deleter    |-> [h \in Handles |-> SD_DefaultDeleter],  \* _deleter
      builtWith  |-> [r \in Resources |-> SD_DefaultDeleter],
      releasedBy |-> [r \in Resources |-> <<>>],  \* the deleters called on r
      nResources |-> 0 ]

\* _deleter(_ptr): the deleter instance d is called with the pointer p; called
\* with a null pointer it has nothing to release.
SD_Delete(S, d, p) ==
    IF p = Null THEN S
    ELSE [S EXCEPT !.releasedBy[p] = Append(@, d)]

\* A swap that exchanges the deleters along with the pointers.
ScopedPointer_swapDeleters(S, h, other) ==
    [S EXCEPT !.ptr[h] = S.ptr[other], !.ptr[other] = S.ptr[h],
              !.deleter[h] = S.deleter[other], !.deleter[other] = S.deleter[h]]

\* ScopedPointer::swap: only _ptr is exchanged.
ScopedPointer_swapPointers(S, h, other) ==
    [S EXCEPT !.ptr[h] = S.ptr[other], !.ptr[other] = S.ptr[h]]

\* ~ScopedPointer(): _deleter(_ptr)
ScopedPointer_destroy(S, h) ==
    [SD_Delete(S, S.deleter[h], S.ptr[h]) EXCEPT !.state[h] = "gone"]

SD_Live(h) == sd.state[h] = "live"

SD_NextSlot(h) ==
    /\ sd.state[h] = "unborn"
    /\ \A g \in Handles : g < h => sd.state[g] # "unborn"

SD_Others ==
    UNCHANGED <<ndebug, sp, up, scp, sa, rc, dd, us, ar, th, ctr, er, asrt,
                pr, by, iv, fn, st>>

\* ScopedPointer(): no resource, and the deleter is default-constructed
SD_DefaultConstruct(h) ==
    /\ SD_NextSlot(h)
    /\ sd' = [sd EXCEPT !.state[h] = "live", !.ptr[h] = Null,
                        !.deleter[h] = SD_DefaultDeleter]
    /\ SD_Others

\* ScopedPointer(T *&&ptr): the deleter is default-constructed
\* ScopedPointer(T *&&ptr, Deleter deleter): the handle keeps a copy of deleter
SD_Construct(h, d) ==
    /\ SD_NextSlot(h)
    /\ sd.nResources < MaxResources
    /\ LET r == sd.nResources + 1
       IN  sd' = [sd EXCEPT !.state[h] = "live", !.ptr[h] = r,
                           !.deleter[h] = d, !.builtWith[r] = d,
                           !.nResources = r]
    /\ SD_Others

SD_Swap(h, other) ==
    /\ SD_Live(h) /\ SD_Live(other)
    /\ sd' = ScopedPointer_swapPointers(sd, h, other)
    /\ SD_Others

SD_Destroy(h) ==
    /\ SD_Live(h)
    /\ sd' = ScopedPointer_destroy(sd, h)
    /\ SD_Others

SD_Next ==
    \/ \E h \in Handles : SD_DefaultConstruct(h)
    \/ \E h \in Handles, d \in SD_Deleters \cup {SD_DefaultDeleter} :
          SD_Construct(h, d)
    \/ \E h, other \in Handles : SD_Swap(h, other)
    \/ \E h \in Handles : SD_Destroy(h)

\* ---------------------------------------------------------------- Function
\* Function<int(int, int)>.  Its only member, SharedPointer<Callable>
\* _callable, is a SharedPointer handle of the record p, which has the shape
\* of SP_Init; the resources are ConcreteCallable objects and func tells which
\* callable each of them wraps.
MaxArg == 1
FN_Args == 0..MaxArg
FN_Callables == {"add", "mul"}

\* ConcreteCallable::invoke: _func(args...)
ConcreteCallable_invoke(c, a, b) ==
    CASE c = "add" -> a + b
      [] c = "mul" -> a * b

MsgNullFunction == "Attempt to call null function"

\* The result of a step: of operator bool, val is the truth value; of
\* operator(), called is the callable reached with the arguments it was given
\* and val the value it returned.
FN_NoResult == [op |-> "none", called |-> <<>>, val |-> 0]

\* A step that returns nothing.
FN_Void(F) == [F EXCEPT !.ret = FN_NoResult]

FN_Init ==
    [ p      |-> SP_Init,                          \* the _callable members
      func   |-> [r \in Resources |-> "none"],     \* ConcreteCallable::_func
      ret    |-> FN_NoResult ]      \* what the latest step returned

\* Function(): _callable is default-constructed
Function_default(F, h) ==
    FN_Void([F EXCEPT !.p = [SP_NewCounter(F.p, h) EXCEPT !.state[h] = "live",
                                                          !.raw[h] = Null]])

\* Function(CallableType func):
\*   _callable(createShared(new ConcreteCallable<CallableType>(func)))
\* The temporary that createShared returns lives in slot t until the end of
\* the initialisation.
Function_wrap(F, h, t, c) ==
    LET S1 == SP_NewResource(F.p)
        r  == S1.nResources
        S2 == [SP_NewCounter(S1, t) EXCEPT !.state[t] = "live", !.raw[t] = r]
        S3 == SharedPointer_moveSubtype(S2, h, t)
        S4 == SharedPointer_dtor(S3, t)
    IN  FN_Void([F EXCEPT !.p = [S4 EXCEPT !.state[t] = "unborn"],
                          !.func[r] = c])

\* Function(const Function &other), Function(Function &&other):
\*   _callable(other._callable), a copy in both
Function_copy(F, h, other) ==
    FN_Void([F EXCEPT !.p = SharedPointer_copy(F.p, h, other)])

\* ~Function(): destroys _callable
Function_dtor(F, h) ==
    FN_Void([F EXCEPT !.p = SharedPointer_dtor(F.p, h)])

\* explicit operator bool: (bool)_callable
Function_bool(F, h) ==
    [F EXCEPT !.ret = [op |-> "bool", called |-> <<>>,
                       val |-> SharedPointer_bool(F.p, h)]]

\* An operator() without the assertion of its own.
Function_invoke_Unchecked(F, h, a, b) ==
    { IF S.fault # NoFault
      THEN [F EXCEPT !.p = S]
      ELSE [F EXCEPT !.p = S,
                     !.ret = [op |-> "call", called |-> <<F.func[S.ret], a, b>>,
                              val |-> ConcreteCallable_invoke(F.func[S.ret],
                                                              a, b)]]
      : S \in SharedPointer_deref(F.p, h) }

\* operator()(Args... args):
\*   ASSERTF((bool)_callable, "Attempt to call null function");
\*   return _callable->invoke(args...);
Function_invoke(F, h, a, b) ==
    LET f == ASSERTF(SharedPointer_bool(F.p, h), MsgNullFunction)
    IN  IF f # NoFault THEN {[F EXCEPT !.p.fault = f]}
        ELSE Function_invoke_Unchecked(F, h, a, b)

FN_Live(h) == fn.p.state[h] = "live"

FN_Running == fn.p.fault = NoFault

FN_NextSlot(h) ==
    /\ fn.p.state[h] = "unborn"
    /\ \A g \in Handles : g < h => fn.p.state[g] # "unborn"

FN_Others ==
    UNCHANGED <<ndebug, sp, up, scp, sa, rc, dd, us, ar, th, ctr, er, asrt,
                pr, by, iv, sd, st>>

FN_DefaultConstruct(h) ==
    /\ FN_Running /\ FN_NextSlot(h) /\ fn.p.nCounters < MaxCounters
    /\ fn' = Function_default(fn, h)
    /\ FN_Others

FN_Construct(h, c) ==
    /\ FN_Running /\ FN_NextSlot(h) /\ h + 1 \in Handles
    /\ fn.p.nCounters < MaxCounters /\ fn.p.nResources < MaxResources
    /\ fn' = Function_wrap(fn, h, h + 1, c)
    /\ FN_Others

FN_CopyConstruct(h, other) ==
    /\ FN_Running /\ FN_NextSlot(h) /\ FN_Live(other)
    /\ fn' = Function_copy(fn, h, other)
    /\ FN_Others

FN_Destroy(h) ==
    /\ FN_Running /\ FN_Live(h)
    /\ fn' = Function_dtor(fn, h)
    /\ FN_Others

FN_Bool(h) ==
    /\ FN_Running /\ FN_Live(h)
    /\ fn' = Function_bool(fn, h)
    /\ FN_Others

FN_Invoke(h, a, b) ==
    /\ FN_Running /\ FN_Live(h)
    /\ fn' \in Function_invoke(fn, h, a, b)
    /\ FN_Others

FN_Next ==
    \/ \E h \in Handles : FN_DefaultConstruct(h)
    \/ \E h \in Handles, c \in FN_Callables : FN_Construct(h, c)
    \/ \E h, other \in Handles : FN_CopyConstruct(h, other)
    \/ \E h \in Handles : FN_Destroy(h)
    \/ \E h \in Handles : FN_Bool(h)
    \/ \E h \in Handles, a, b \in FN_Args : FN_Invoke(h, a, b)

\* -------------------------------------------------------------- StackTrace
\* StackTraceSnapshot<Size> and the StackTrace constructed from it.  A return
\* address is a positive number; the snapshot's _addresses is the sequence of
\* the _frameCount addresses that backtrace() wrote (position j + 1 of the
\* sequence is the C++ index j).
MaxFrames == 3
ST_Addresses == 1..MaxFrames

\* The value of an object that was never initialised: any address or null.
ST_Indeterminate == ST_Addresses \cup {Null}

\* An exception leaves the constructor: no object exists afterwards.
Thrown(what) == [kind |-> "exception", msg |-> what]

ST_Init ==
    [ pc        |-> "start",
      addresses |-> <<>>,    \* StackTraceSnapshot::_addresses[0 .. _frameCount)
      stackSize |-> 0,       \* StackTrace::_stackSize
      entries   |-> <<>>,    \* _returnAddress of the entries of new Entry[..]
      ret       |-> 0,       \* value returned by the latest observation
      fault     |-> NoFault ]

\* StackTraceSnapshot::frameCount
StackTraceSnapshot_frameCount(S) == Len(S.addresses)

\* entryCount-- on a size_t: the value afterwards
SizeT_Decrement(n) == n - 1

\* StackTrace::createStackEntries: the set of outcomes.
\*   entryCount-- turns a frame count of 0 into SIZE_MAX, and new
\*     Entry[SIZE_MAX] throws;
\*   *addresses[i] is addresses[i][0], element i * Size of the snapshot's
\*     array: for i >= 1 it is read from outside the array;
\*   entries[i] = createEntryFromSymbol(...) runs Entry::operator=, which
\*     assigns nothing (StackTrace.cpp), to an Entry whose default constructor
\*     initialises nothing: _returnAddress stays indeterminate.
StackTrace_createStackEntries(S) ==
    LET entryCount == SizeT_Decrement(StackTraceSnapshot_frameCount(S))
    IN  IF entryCount = SizeT_Max
        THEN {[S EXCEPT !.pc = "trace", !.fault = Thrown("std::bad_alloc")]}
        ELSE IF entryCount >= 2
        THEN {[S EXCEPT !.pc = "trace",
                        !.fault = Undefined("read outside the snapshot's addresses")]}
        ELSE {[S EXCEPT !.pc = "trace", !.stackSize = entryCount, !.entries = e]
              : e \in [1..entryCount -> ST_Indeterminate]}

ST_Others ==
    UNCHANGED <<ndebug, sp, up, scp, sa, rc, dd, us, ar, th, ctr, er, asrt,
                pr, by, iv, sd, fn>>

\* StackTraceSnapshot(): _frameCount = backtrace(_addresses, Size)
ST_Snapshot(a) ==
    /\ st.pc = "start"
    /\ st' = [st EXCEPT !.pc = "snapshot", !.addresses = a]
    /\ ST_Others

\* StackTrace(snapshot): _stackSize = createStackEntries(snapshot, _entries)
ST_Construct ==
    /\ st.pc = "snapshot"
    /\ st' \in StackTrace_createStackEntries(st)
    /\ ST_Others

\* StackTrace::size
ST_Size ==
    /\ st.pc = "trace" /\ st.fault = NoFault
    /\ st' = [st EXCEPT !.pc = "size", !.ret = st.stackSize]
    /\ ST_Others

ST_Next ==
    \/ \E f \in 0..MaxFrames : \E a \in [1..f -> ST_Addresses] : ST_Snapshot(a)
    \/ ST_Construct
    \/ ST_Size

InitAll ==
    /\ sp = SP_Init
    /\ up = UP_Init
    /\ scp = ScP_Init
    /\ sa = SA_Init
    /\ rc = RC_Init
    /\ dd = DD_Init
    /\ us = US_Init
    /\ ar = AR_Init
    /\ th = TH_Init
    /\ ctr = CT_Init
    /\ er = ER_Init
    /\ asrt = AS_Init
    /\ pr = PR_Init
    /\ by = BY_Init
    /\ iv = IV_Init
    /\ sd = SD_Init
    /\ fn = FN_Init
    /\ st = ST_Init

\* The smart-pointer machines run in a debug build (NDEBUG not defined).
InitDebug == InitAll /\ ndebug = FALSE

InitAnyBuild == InitAll /\ ndebug \in BOOLEAN

SpecSP == InitDebug /\ [][SP_Next]_vars

SpecUP == InitDebug /\ [][UP_Next]_vars

SpecSA == InitDebug /\ [][SA_Next]_vars

SpecScP == InitDebug /\ [][ScP_Next]_vars

SpecST == InitDebug /\ [][ST_Next]_vars

SpecPRAll == InitDebug /\ [][PRAll_Next]_vars

SpecFN == InitDebug /\ [][FN_Next]_vars

SpecSD == InitDebug /\ [][SD_Next]_vars

SpecIV == InitDebug /\ [][IV_Next]_vars

SpecBY == InitDebug /\ [][BY_Next]_vars

SpecPR == InitDebug /\ [][PR_Next]_vars

SpecAS == InitAnyBuild /\ [][AS_Next]_vars

SpecER == InitDebug /\ [][ER_Next]_vars

SpecCT == InitDebug /\ [][CT_Next]_vars

SpecTH == InitDebug /\ [][TH_Next]_vars

SpecAR == InitDebug /\ [][AR_Next]_vars

SpecUS == InitDebug /\ [][US_Next]_vars

SpecDD == InitDebug /\ [][DD_Next]_vars

\* SharedArray with its comparison operators.
SAEq_Next ==
    \/ SA_Next
    \/ \E h, other \in Handles : SA_Equal(h, other)
    \/ \E h, other \in Handles : SA_NotEqual(h, other)

SpecSAEq == InitDebug /\ [][SAEq_Next]_vars

\* SharedArray with its comparison operators and its boolean conversion.
SAObserve_Next ==
    \/ SAEq_Next
    \/ \E h \in Handles : SA_Bool(h)

SpecSAObserve == InitDebug /\ [][SAObserve_Next]_vars

\* The reference counters are driven in a debug and in a release build.
SpecRC == InitAnyBuild /\ [][RC_Next]_vars

\* One of the three pointer families at a time: a family takes steps only
\* while the other two are untouched.
Pointers_Next ==
    \/ up = UP_Init /\ scp = ScP_Init /\ SP_Next
    \/ sp = SP_Init /\ scp = ScP_Init /\ UP_Next
    \/ sp = SP_Init /\ up = UP_Init /\ ScP_Next

SpecPointers == InitDebug /\ [][Pointers_Next]_vars

\* A resource wrapped once and then only copied, expired and destroyed.
SPCopies_Next ==
    \/ \E h \in Handles : SP_Construct(h, TRUE)
    \/ \E h, other \in Handles : SP_CopyConstruct(h, other)
    \/ \E h \in Handles : SP_Expire(h)
    \/ \E h \in Handles : SP_Destroy(h)

SpecSPCopies == InitDebug /\ [][SPCopies_Next]_vars

\* Programs whose handles are all default-constructed, or copied from such.
SPDefault_Next ==
    \/ \E h \in Handles : SP_DefaultConstruct(h)
    \/ \E h, other \in Handles : SP_CopyConstruct(h, other)
    \/ \E h, other \in Handles : SP_Swap(h, other)
    \/ \E h \in Handles : SP_Deref(h)
    \/ \E h \in Handles : SP_Destroy(h)

SpecSPDefault == InitAnyBuild /\ [][SPDefault_Next]_vars

\* A handle that refers to a counter and to a resource.
SP_NonEmpty(h) == SP_Live(h) /\ sp.counter[h] # Null /\ sp.raw[h] # Null

\* The operations of a single-threaded program that constructs, copies,
\* moves, swaps, resets, expires, assigns between distinct non-empty handles
\* and destroys; no dereference.
SPOps_Next ==
    \/ \E h \in Handles : SP_DefaultConstruct(h)
    \/ \E h \in Handles : SP_Construct(h, TRUE)
    \/ \E h, other \in Handles : SP_CopyConstruct(h, other)
    \/ \E h, other \in Handles : SP_MoveConstruct(h, other)
    \/ \E h \in Handles : SP_Expire(h)
    \/ \E h \in Handles : SP_Destroy(h)
    \/ \E h \in Handles, fresh \in BOOLEAN : SP_Reset(h, fresh)
    \/ \E h, other \in Handles : SP_Swap(h, other)
    \/ \E h, other \in Handles :
          h # other /\ SP_NonEmpty(h) /\ SP_NonEmpty(other)
              /\ SP_CopyAssign(h, other)
    \/ \E h, other \in Handles :
          h # other /\ SP_NonEmpty(h) /\ SP_NonEmpty(other)
              /\ SP_MoveAssign(h, other)

SpecSPOps == InitDebug /\ [][SPOps_Next]_vars

\* ------------------------------------------------------ SharedPointer claims
\* The live handles that hold a reference (a non-null counter) to resource r.
SP_Holders(r) ==
    {h \in Handles : SP_Live(h) /\ sp.counter[h] # Null /\ sp.raw[h] = r}

\* The live handles whose _counter is counter c.
SP_Referrers(c) == {h \in Handles : SP_Live(h) /\ sp.counter[h] = c}

\* C1: a resource wrapped by SharedPointer(r) and copied n times is released
\* exactly once, when the last of the n+1 handles is destroyed or expired: it
\* is unreleased while a handle still holds its reference and released exactly
\* once as soon as none does.
C1_ReleasedOnceWhenLastHandleGone ==
    \A r \in 1..sp.nResources :
        sp.released[r] = IF SP_Holders(r) = {} THEN 1 ELSE 0

\* C1 witness: the one resource was wrapped by handle 1 and copied into every
\* other handle, all handles have been destroyed, and it was released once.
C1_Witness ==
    /\ sp.nResources = 1 /\ sp.nCounters = 1
    /\ \A h \in Handles : sp.state[h] = "gone"
    /\ sp.released[1] = 1

\* C2: the value of every live counter is the number of handles whose counter
\* pointer refers to it, which is at least 1; a counter nobody refers to has
\* been deleted, exactly once, with its count at 0.
C2_CountEqualsHandles ==
    \A c \in 1..sp.nCounters :
        IF sp.deleted[c] = 0
        THEN sp.count[c] = Cardinality(SP_Referrers(c)) /\ sp.count[c] >= 1
        ELSE sp.deleted[c] = 1 /\ sp.count[c] = 0 /\ SP_Referrers(c) = {}

\* C2 witness: one counter is shared by two handles while another counter has
\* been destroyed when its count reached 0.
C2_Witness ==
    \E c, d \in 1..sp.nCounters :
        /\ sp.deleted[c] = 0 /\ sp.count[c] = 2
        /\ sp.deleted[d] = 1 /\ sp.count[d] = 0


\* C5: move-constructing or move-assigning other into a different handle h
\* leaves the count of the transferred counter as it was (but for the
\* reference h itself gave up), and leaves other empty: its boolean conversion
\* is false and destroying it releases and deletes nothing.
C5_MoveTransfersAndEmptiesSource ==
    [][\A h, other \in Handles :
        (h # other /\ (SP_MoveConstruct(h, other) \/ SP_MoveAssign(h, other))) =>
            LET c == sp.counter[other]
                gone == SharedPointer_dtor(sp', other)
            IN  /\ c # Null =>
                      sp'.count[c] = sp.count[c] - (IF sp.counter[h] = c THEN 1 ELSE 0)
                /\ sp'.counter[h] = c
                /\ ~SharedPointer_bool(sp', other)
                /\ gone.released = sp'.released
                /\ gone.deleted = sp'.deleted
                /\ gone.count = sp'.count]_vars

\* C6: the boolean conversion is true iff the resource pointer is non-null,
\* and a handle is falsy once expire() has been called on it, whether or not
\* other handles still share the counter.
C6_ExpiredHandleIsFalsy ==
    [][\A h \in Handles :
        SP_Expire(h) =>
            /\ SharedPointer_bool(sp', h) = (sp'.raw[h] # Null)
            /\ ~SharedPointer_bool(sp', h)]_vars

\* C7: copy-assigning other to a different handle h drops h's previous
\* reference (its old counter is decremented and the old resource released iff
\* h was its last handle), then h shares other's counter and resource, that
\* counter is one higher than after the drop, and other is unchanged.
C7_Post(h, other) ==
    LET old == sp.counter[h]
        res == sp.raw[h]
        c   == sp.counter[other]
    IN  /\ sp'.fault = NoFault
        /\ old # Null =>
              IF sp.count[old] = 1
              THEN /\ sp'.deleted[old] = 1
                   /\ res # Null => sp'.released[res] = 1
              ELSE /\ sp'.deleted[old] = 0
                   /\ res # Null => sp'.released[res] = sp.released[res]
                   /\ old # c => sp'.count[old] = sp.count[old] - 1
        /\ sp'.counter[h] = c /\ sp'.raw[h] = sp.raw[other]
        /\ c # Null /\ sp'.count[c] = sp.count[c] + (IF old = c THEN 0 ELSE 1)
        /\ sp'.counter[other] = sp.counter[other]
        /\ sp'.raw[other] = sp.raw[other]

C7_CopyAssignSharesSource ==
    [][\A h, other \in Handles :
        (h # other /\ SP_CopyAssign(h, other)) => C7_Post(h, other)]_vars

\* The same postcondition for sources that still refer to a counter; this one
\* holds.
C7_CopyAssignFromReferencingSource ==
    [][\A h, other \in Handles :
        (h # other /\ sp.counter[other] # Null /\ SP_CopyAssign(h, other)) =>
            C7_Post(h, other)]_vars


\* ------------------------------------------------------ UniquePointer claims
\* C3: no two live UniquePointer handles hold the same non-null resource.
C3_NoTwoHandlesHoldOneResource ==
    \A h, g \in Handles :
        (h # g /\ UP_Live(h) /\ UP_Live(g) /\ up.raw[h] # Null) =>
            up.raw[h] # up.raw[g]

\* C3 witness: two live handles hold resources, the resource handle 1 was
\* built with is now held by another handle, and handle 1 holds another one
\* (ownership has been transferred between handles).
C3_Witness ==
    /\ up.fault = NoFault
    /\ \E h, g \in Handles :
          /\ h # g /\ h # 1 /\ UP_Live(h) /\ UP_Live(g)
          /\ up.raw[h] = 1 /\ up.raw[g] = 2

\* ----------------------------------------------------------- dereference
Deref_Post(S, T, p) ==
    IF p = Null
    THEN T = [S EXCEPT !.fault = Abort(MsgNullDeref)]
    ELSE T = [S EXCEPT !.ret = p]

\* C8: in a debug build, dereferencing or indexing a SharedPointer,
\* UniquePointer or ScopedPointer whose resource pointer is null aborts with
\* "Attempt to dereference null pointer"; with a non-null pointer it returns
\* the held resource and changes nothing else.
C8_DerefNullAbortsElseReturnsResource ==
    [][ /\ \A h \in Handles : SP_Deref(h) => Deref_Post(sp, sp', sp.raw[h])
        /\ \A h \in Handles : UP_Deref(h) => Deref_Post(up, up', up.raw[h])
        /\ \A h \in Handles : ScP_Deref(h) => Deref_Post(scp, scp', scp.ptr[h])
      ]_vars

\* The same postcondition for handles whose pointer is null or points to a
\* resource that has not been released; this one holds.
C8_DerefOfNullOrUnreleased ==
    [][ /\ \A h \in Handles :
              (SP_Deref(h) /\ (sp.raw[h] = Null \/ sp.released[sp.raw[h]] = 0)) =>
                  Deref_Post(sp, sp', sp.raw[h])
        /\ \A h \in Handles : UP_Deref(h) => Deref_Post(up, up', up.raw[h])
        /\ \A h \in Handles : ScP_Deref(h) => Deref_Post(scp, scp', scp.ptr[h])
      ]_vars


\* -------------------------------------------------------- SharedArray claims
\* C4: a SharedArray reference counter is deleted exactly once, by the handle
\* destruction that finds its count at 1, and that deletion releases the owned
\* array exactly once; a destruction that finds the count above 1 lowers it by
\* one and deletes and releases nothing.
C4_CounterDeletedOnceByLastDestruction ==
    [][ /\ \A r \in Resources : sa'.released[r] <= 1
        /\ \A c \in 1..sa.nCounters :
              IF sa.deleted[c] = 0
              THEN /\ sa'.deleted[c] \in {0, 1}
                   /\ sa'.deleted[c] = 1 => sa.count[c] = 1
                   /\ sa.arr[c] # Null => sa'.released[sa.arr[c]] = sa'.deleted[c]
              ELSE sa'.deleted[c] = 1
        /\ \A h \in Handles :
              (SA_Destroy(h) /\ sa.impl[h] # Null) =>
                  LET c == sa.impl[h]
                  IN  IF sa.count[c] = 1
                      THEN sa'.deleted[c] = 1
                      ELSE sa'.deleted[c] = 0 /\ sa'.count[c] = sa.count[c] - 1
      ]_vars

\* C4 witness: every handle has been destroyed, and the one counter there was
\* has been deleted once and its array released once.
C4_Witness ==
    /\ sa.nCounters = 1 /\ sa.nResources = 1
    /\ \A h \in Handles : sa.state[h] = "gone"
    /\ sa.deleted[1] = 1 /\ sa.released[1] = 1

\* --------------------------------------------------- reference counter claims
\* C9: in a debug build, decrement() on a reference counter whose count is
\* already 0 fails the assertion "Attempted to decrement reference count below
\* zero" and aborts the process.
C9_DecrementAtZeroAborts ==
    [][(RC_Decrement /\ rc.count = 0 /\ ~ndebug) =>
           rc'.fault = Abort(MsgBelowZero)]_vars

\* C9 witness: a debug build has aborted in decrement() at count 0.
C9_Witness ==
    ~ndebug /\ rc.count = 0 /\ rc.fault = Abort(MsgBelowZero)

\* C10: a reference counter is created with count 1; decrement() at a count
\* c >= 1 leaves c - 1 and returns true iff c - 1 > 0; so on a counter that was
\* created and incremented k times, decrement number k + 1 is the one that
\* returns false and every earlier one returns true.
C10_DecrementReturnsWhetherReferencesRemain ==
    [][ /\ (\E kind \in RC_Kinds, p \in {Null, 1} : RC_Construct(kind, p)) =>
              rc'.count = 1
        /\ (RC_Decrement /\ rc.count >= 1) =>
              /\ rc'.fault = NoFault
              /\ rc'.count = rc.count - 1
              /\ rc'.retBool = (rc.count - 1 > 0)
        /\ (RC_Decrement /\ ~rc.mixed /\ rc'.decs <= rc.incs + 1) =>
              rc'.retBool = (rc'.decs <= rc.incs)
      ]_vars

\* C10 witness: after MaxIncs increments, decrement number MaxIncs + 1 has
\* returned false and left the count at 0.
C10_Witness ==
    /\ rc.state = "live" /\ rc.fault = NoFault /\ ~rc.mixed
    /\ rc.incs = MaxIncs /\ rc.decs = MaxIncs + 1
    /\ rc.count = 0 /\ rc.retBool = FALSE

\* ------------------------------------- UniquePointer claims: release, reset
\* The live UniquePointer handles that hold resource r.
UP_Holders(r) == {h \in Handles : UP_Live(h) /\ up.raw[h] = r}

\* C13: release() returns the held resource, leaves the handle null and frees
\* nothing; move construction and move assignment between two handles take
\* the source's resource that way: afterwards the source is null, the
\* destination holds the resource, and the moved resource has not been freed.
C13_ReleaseAndMoveTransferWithoutFreeing ==
    [][ /\ \A h \in Handles :
              UP_Release(h) =>
                  /\ up'.ret = up.raw[h]
                  /\ up'.raw[h] = Null
                  /\ up'.released = up.released
        /\ \A h, other \in Handles :
              (h # other /\ (UP_MoveConstruct(h, other) \/ UP_MoveAssign(h, other))) =>
                  /\ up'.raw[other] = Null
                  /\ up'.raw[h] = up.raw[other]
                  /\ up.raw[other] # Null =>
                        up'.released[up.raw[other]] = up.released[up.raw[other]]
        /\ \A h, other \in Handles :
              UP_MoveConstruct(h, other) => up'.released = up.released
      ]_vars

\* C13 witness: release() has returned a resource that no handle holds any
\* more and that has not been freed.
C13_Witness ==
    /\ up.fault = NoFault /\ up.ret # Null
    /\ UP_Holders(up.ret) = {} /\ up.released[up.ret] = 0

\* C14: reset(p) frees the resource the handle holds exactly once (and frees
\* nothing when the handle is null), then the handle holds p; move assignment
\* onto another handle frees that handle's previous resource the same way
\* before it takes the source's.
C14_ResetFreesHeldResourceOnce ==
    [][ /\ \A h \in Handles, fresh \in BOOLEAN :
              UP_Reset(h, fresh) =>
                  LET old == up.raw[h]
                      p   == IF fresh THEN up.nResources + 1 ELSE Null
                  IN  /\ up'.fault = NoFault
                      /\ up'.raw[h] = p
                      /\ \A r \in Resources :
                            up'.released[r] =
                                IF r = old THEN 1 ELSE up.released[r]
        /\ \A h, other \in Handles :
              (h # other /\ UP_MoveAssign(h, other)) =>
                  LET old == up.raw[h]
                  IN  /\ up'.fault = NoFault
                      /\ up'.raw[h] = up.raw[other]
                      /\ \A r \in Resources :
                            up'.released[r] =
                                IF r = old THEN 1 ELSE up.released[r]
      ]_vars

\* C14 witness: the first handle is the only one ever constructed; it holds
\* the second resource, and the first resource has been freed once.
C14_Witness ==
    /\ up.fault = NoFault /\ up.nResources = 2
    /\ UP_Live(1) /\ up.state[2] = "unborn"
    /\ up.raw[1] = 2 /\ up.released[1] = 1 /\ up.released[2] = 0

\* C15: expire() frees the held resource at once and leaves the handle null
\* (its boolean conversion is false); destroying the handle afterwards, or
\* calling expire() again, frees nothing, so no resource is freed twice.
C15_ExpireFreesOnceAndNullsHandle ==
    [][ /\ \A r \in Resources : up'.released[r] <= 1
        /\ \A h \in Handles :
              UP_Expire(h) =>
                  /\ up'.fault = NoFault
                  /\ up.raw[h] # Null => up'.released[up.raw[h]] = 1
                  /\ \A r \in Resources :
                        r # up.raw[h] => up'.released[r] = up.released[r]
                  /\ up'.raw[h] = Null
                  /\ ~UniquePointer_bool(up', h)
                  /\ UniquePointer_expire(up', h) = up'
                  /\ UniquePointer_dtor(up', h).released = up'.released
                  /\ UniquePointer_dtor(up', h).fault = NoFault
      ]_vars

\* C15 witness: the only handle ever constructed is still alive and null, and
\* the one resource there was has been freed once: expire() freed it (called
\* directly or by reset) while the handle lives on.
C15_Witness ==
    /\ up.fault = NoFault /\ up.nResources = 1 /\ up.released[1] = 1
    /\ UP_Live(1) /\ up.raw[1] = Null /\ up.state[2] = "unborn"

\* ------------------------------------------------------ ScopedPointer claims
\* C17: a ScopedPointer frees the resource it holds exactly once, when the
\* handle is destroyed; swap exchanges the resources of the two handles and
\* frees nothing; after every step each resource that has not been freed is
\* held by exactly one live handle, and a freed one was freed once and is
\* held by none.
C17_ScopedResourceHeldByOneFreedOnce ==
    [][ /\ \A r \in 1..scp'.nResources :
              LET holders == {h \in Handles :
                                scp'.state[h] = "live" /\ scp'.ptr[h] = r}
              IN  IF scp'.released[r] = 0
                  THEN Cardinality(holders) = 1
                  ELSE scp'.released[r] = 1 /\ holders = {}
        /\ \A h, other \in Handles :
              ScP_Swap(h, other) =>
                  /\ scp'.ptr[h] = scp.ptr[other]
                  /\ scp'.ptr[other] = scp.ptr[h]
                  /\ scp'.released = scp.released
        /\ \A h \in Handles :
              ScP_Destroy(h) =>
                  /\ scp'.state[h] = "gone"
                  /\ \A r \in Resources :
                        scp'.released[r] =
                            IF r = scp.ptr[h] THEN 1 ELSE scp.released[r]
      ]_vars

\* C17 witness: two handles were constructed with the two resources and
\* swapped; the first handle has been destroyed and freed the second
\* resource, while the second handle still holds the first resource.
C17_Witness ==
    /\ scp.fault = NoFault /\ scp.nResources = 2
    /\ scp.state[1] = "gone" /\ ScP_Live(2) /\ scp.state[3] = "unborn"
    /\ scp.ptr[2] = 1 /\ scp.released[1] = 0 /\ scp.released[2] = 1

\* ------------------------------------------------ SharedPointer claims: swap
\* C18: a.swap(b) exchanges the counter and the resource the two handles refer
\* to: afterwards a refers to what b referred to and b to what a referred to;
\* no reference count changes, no counter is deleted and nothing is freed.
C18_SwapExchangesAndChangesNoCount ==
    [][\A h, other \in Handles :
        SP_Swap(h, other) =>
            /\ sp'.fault = NoFault
            /\ sp'.counter[h] = sp.counter[other] /\ sp'.raw[h] = sp.raw[other]
            /\ sp'.counter[other] = sp.counter[h] /\ sp'.raw[other] = sp.raw[h]
            /\ \A g \in Handles \ {h, other} :
                  sp'.counter[g] = sp.counter[g] /\ sp'.raw[g] = sp.raw[g]
            /\ sp'.count = sp.count
            /\ sp'.deleted = sp.deleted
            /\ sp'.released = sp.released]_vars

\* C18 witness: two handles were constructed with a resource each and swapped:
\* the first handle refers to the second counter and resource, the second
\* handle to the first, both counts are 1 and nothing has been freed.
C18_Witness ==
    /\ sp.fault = NoFault /\ sp.nCounters = 2 /\ sp.nResources = 2
    /\ SP_Live(1) /\ SP_Live(2) /\ sp.state[3] = "unborn"
    /\ sp.counter[1] = 2 /\ sp.raw[1] = 2 /\ sp.counter[2] = 1 /\ sp.raw[2] = 1
    /\ sp.count[1] = 1 /\ sp.count[2] = 1
    /\ sp.deleted[1] = 0 /\ sp.deleted[2] = 0
    /\ sp.released[1] = 0 /\ sp.released[2] = 0

\* ------------------------------------------------ SharedArray claims: equality
\* The raw array handle h references (null for a handle without a counter).
SA_Array(h) == IF sa.impl[h] = Null THEN Null ELSE sa.arr[sa.impl[h]]

\* C19: two SharedArray handles compare equal iff they reference the same raw
\* array or both reference null, and operator!= returns the negation of
\* operator== for every pair of handles.
C19_EqualIffSameArrayAndNotEqualIsNegation ==
    [][\A h, other \in Handles :
        /\ SA_Equal(h, other) =>
              /\ sa'.fault = NoFault
              /\ sa'.retBool = (SA_Array(h) = SA_Array(other))
        /\ SA_NotEqual(h, other) =>
              /\ sa'.fault = NoFault
              /\ sa'.retBool = (SA_Array(h) # SA_Array(other))]_vars

\* operator== alone, for handles that both have a counter; this one holds.
C19_EqualOnHandlesWithCounter ==
    [][\A h, other \in Handles :
        (SA_Equal(h, other) /\ sa.impl[h] # Null /\ sa.impl[other] # Null) =>
              /\ sa'.fault = NoFault
              /\ sa'.retBool = (SA_Array(h) = SA_Array(other))]_vars

\* ------------------------------------------------ DefaultDeleter claims
\* C20: DefaultDeleter, in its scalar and in its array form, does nothing when
\* it is applied to a null pointer; applied to a non-null pointer it releases
\* the instance once (every element of it once) and sets the pointer to null,
\* so that a second application to the same variable releases nothing.
C20_DeleterFreesOnceThenDoesNothing ==
    [][\A v \in Handles :
        (DD_ApplyScalar(v) \/ DD_ApplyArray(v)) =>
            /\ dd'.fault = NoFault
            /\ dd'.instance[v] = Null
            /\ \A w \in Handles \ {v} : dd'.instance[w] = dd.instance[w]
            /\ \A r \in Resources :
                  dd'.destroyed[r] =
                      IF r = dd.instance[v]
                      THEN [i \in DOMAIN dd.destroyed[r] |-> 1]
                      ELSE dd.destroyed[r]]_vars

\* C20 witness: the deleter has been applied three times to variables that
\* pointed to an array of two elements and to a single instance, so at least
\* once to a null pointer: every variable is null and every element has been
\* destroyed exactly once.
C20_Witness ==
    /\ dd.fault = NoFault /\ dd.nObjects = 2
    /\ dd.form[1] = "array" /\ dd.destroyed[1] = <<1, 1>>
    /\ dd.form[2] = "scalar" /\ dd.destroyed[2] = <<1>>
    /\ dd.calls = MaxCalls
    /\ \A v \in Handles : dd.instance[v] = Null


\* ------------------------------------------------ UniquePointer claims: subtypes
\* C12: when a UniquePointer<Derived> holding d has been moved, by
\* construction or by assignment, into a UniquePointer<Base>, then destroying,
\* expiring or resetting the base-typed handle runs on d the derived type's
\* release followed by the base type's release, and d is released exactly
\* once: no step runs a destructor on an object that was already released.
C12_BaseHandleRunsDerivedReleaseOnce ==
    [][/\ \A h \in Handles :
            ( /\ US_Destroy(h) \/ US_Expire(h) \/ US_Reset(h, TRUE) \/ US_Reset(h, FALSE)
              /\ us.htype[h] = "Base" /\ us.raw[h] # Null
              /\ us.dyn[us.raw[h]] = "Derived" ) =>
                /\ us'.fault = NoFault
                /\ us.calls[us.raw[h]] = <<>>
                /\ us'.calls[us.raw[h]] = <<"~DestructorSpySubclass", "~DestructorSpy">>
                /\ \A g \in Handles : us'.raw[g] # us.raw[h]
       /\ \A r \in Resources :
            us.calls[r] # <<>> => us'.calls[r] = us.calls[r]]_vars

\* C12 witness: the first handle, a UniquePointer<Derived>, was constructed
\* with the object and moved into the second handle, a UniquePointer<Base>;
\* the second handle has been destroyed and both destructors have run on the
\* object, the subclass's first.
C12_Witness ==
    /\ us.fault = NoFault /\ us.nResources = 1 /\ us.dyn[1] = "Derived"
    /\ US_Live(1) /\ us.htype[1] = "Derived" /\ us.raw[1] = Null
    /\ us.state[2] = "gone" /\ us.htype[2] = "Base"
    /\ us.calls[1] = <<"~DestructorSpySubclass", "~DestructorSpy">>

\* ------------------------------------------------ array claims
\* C16: an array of N elements owned by an array-owning handle
\* (SharedPointer<T[]>, UniquePointer<T[]>, ScopedPointer<T[]>, SharedArray,
\* ScopedArray) is released with the array strategy when its last owner goes
\* out of scope: no element is released while a live handle refers to the
\* array, and once none does each of the N elements has been released
\* exactly once, whatever the class of the handle.
C16_ArrayReleasedElementwiseByLastOwner ==
    /\ ar.fault = NoFault
    /\ ar.flavor # "none" =>
          /\ Len(ar.destroyed) = ar.len
          /\ \A i \in 1..ar.len :
                ar.destroyed[i] = IF \E h \in Handles : ar.holds[h] THEN 0 ELSE 1

\* C16 witness: a SharedPointer<T[]> wrapped an array of MaxLen elements and
\* was copied; both handles have gone out of scope and every element has been
\* released once.
C16_Witness ==
    /\ ar.fault = NoFault /\ ar.flavor = "SharedPointer<T[]>" /\ ar.len = MaxLen
    /\ ar.state[1] = "gone" /\ ar.state[2] = "gone" /\ ar.state[3] = "unborn"
    /\ ar.count = 0
    /\ ar.destroyed = [i \in 1..MaxLen |-> 1]

\* ------------------------------------------------ concurrency claims
\* Handles that refer to the counter, and whether every thread is between
\* two operations.
TH_Referrers == Cardinality({h \in Handles : th.state[h] = "live"})

TH_Quiescent == \A t \in Threads : th.pc[t] = "idle"

\* The bookkeeping is right: the count is the number of live handles, and the
\* counter and the resource are freed, once, exactly when no handle is left.
TH_Consistent ==
    /\ th.fault = NoFault
    /\ th.count = TH_Referrers
    /\ th.counterDeleted = (TH_Referrers = 0)
    /\ th.released = IF TH_Referrers = 0 THEN 1 ELSE 0

\* C11: the reference count is not synchronized.  When threads copy and
\* destroy handles that share one counter without a lock, the reads and
\* writes of increment and decrement interleave; as long as no write of
\* another thread falls between a thread's read and its write, the count is
\* the number of live handles whenever the threads are between operations and
\* the resource is released exactly when the last handle goes; an
\* interleaving that loses an update is all that separates the program from
\* the states of C11_Witness and C11_NeverReleased, where the count differs
\* from the number of live handles and the resource is released while a
\* handle references it, or never.
C11_OnlyInterleavingBreaksTheCount ==
    (TH_Quiescent /\ ~th.raced) => TH_Consistent

\* C11 witness: an update was lost; the threads are between operations, a
\* live handle still references the resource, the count is not the number of
\* live handles, and the resource has been released.
C11_Witness ==
    /\ th.fault = NoFault /\ TH_Quiescent /\ th.raced
    /\ TH_Referrers > 0
    /\ th.count # TH_Referrers
    /\ th.released = 1

\* The other outcome: every handle is gone and the resource was not released.
C11_NeverReleased ==
    /\ th.fault = NoFault /\ TH_Quiescent /\ th.raced
    /\ \A h \in Handles : th.state[h] = "gone"
    /\ th.released = 0

\* ------------------------------------------------ Counter claims
\* C21: Counter::increment() and Counter::decrement() each return the value
\* held before the call; increment raises the value by exactly one; decrement
\* lowers it by exactly one when the value is > 0 and leaves it at 0 when it
\* is 0, so the value never underflows.  (As size_t values: the step from
\* SIZE_MAX to 0 is not a rise by one.)
C21_IncrementAndDecrementByOne ==
    [][/\ CT_Increment =>
            /\ ctr'.ret = ctr.count
            /\ ctr.count # SizeT_Max /\ ctr'.count = ctr.count + 1
       /\ CT_Decrement =>
            /\ ctr'.ret = ctr.count
            /\ ctr'.count = IF ctr.count = 0 THEN 0 ELSE ctr.count - 1]_vars

\* The same for every value below SIZE_MAX; this one holds.
C21_ByOneBelowMax ==
    [][/\ (CT_Increment /\ ctr.count # SizeT_Max) =>
            /\ ctr'.ret = ctr.count
            /\ ctr'.count = ctr.count + 1
       /\ CT_Decrement =>
            /\ ctr'.ret = ctr.count
            /\ ctr'.count = IF ctr.count = 0 THEN 0 ELSE ctr.count - 1]_vars

\* ------------------------------------------------ Error claims
\* C22: an Error constructed without a cause reports a null cause; an Error
\* constructed with cause c returns from every call of cause() a handle to
\* the same error object as c (sharing its counter); and calling cause(), or
\* dropping what it returned, never releases that error while the owning
\* Error is alive.
C22_CauseIsTheErrorGivenAndStaysAlive ==
    [][/\ ER_Cause =>
            /\ er'.fault = NoFault
            /\ er'.ret = er.given /\ er'.raw[3] = er.given
            /\ er'.counter[3] = er.counter[2] /\ er'.counter[3] # Null
            /\ er'.released = er.released
       /\ (er'.state[2] = "live" /\ er'.given # Null) =>
            er'.fault = NoFault /\ er'.released[er'.given] = 0]_vars

\* C22 witness: E was constructed with the caller's handle to an error, the
\* caller's handle has gone, cause() has been called MaxCalls times and every
\* result dropped but the latest, which refers to the error; the error is not
\* released and is counted twice, by E._cause and by the result.
C22_Witness ==
    /\ er.fault = NoFault /\ er.given = 1 /\ er.calls = MaxCalls
    /\ er.state[1] = "gone" /\ er.state[2] = "live" /\ er.state[3] = "live"
    /\ er.ret = 1 /\ er.raw[3] = 1 /\ er.counter[3] = er.counter[2]
    /\ er.count[er.counter[2]] = 2
    /\ er.released[1] = 0

\* ------------------------------------------------ assertion claims
\* What an assertion statement does to the program, given the macro, the
\* value of the condition and the text of the condition.
C23_Post(macro, condition, conversion) ==
    IF ndebug \/ condition
    THEN /\ asrt'.fault = NoFault
         /\ asrt'.stderr = asrt.stderr /\ asrt'.ran = asrt.ran
    ELSE /\ asrt'.fault = Abort(macro)
         /\ asrt'.stderr = Append(asrt.stderr, macro)
         /\ asrt'.ran = asrt.ran

\* C23: in a debug build ASSERT / ASSERTF with a false condition prints a
\* diagnostic and terminates the process at once, before any following
\* statement runs; with a true condition they have no effect; with NDEBUG
\* defined both are no-ops that never terminate the process, whatever the
\* condition.
C23_AssertAbortsInDebugAndIsNoOpInRelease ==
    [][/\ \A macro \in AS_Macros, condition, conversion \in BOOLEAN :
            AS_Assert(macro, condition, conversion) =>
                C23_Post(macro, condition, conversion)
       /\ asrt.fault # NoFault => asrt' = asrt]_vars

\* The same for conditions whose text holds no printf conversion; this one
\* holds.
C23_ConditionTextWithoutConversion ==
    [][/\ \A macro \in AS_Macros, condition \in BOOLEAN :
            AS_Assert(macro, condition, FALSE) =>
                C23_Post(macro, condition, FALSE)
       /\ asrt.fault # NoFault => asrt' = asrt]_vars

\* ------------------------------------------------ Pair claims
\* C24: Pair ordering and equality are exactly lexicographic: a < b holds iff
\* a.first < b.first, or a.first equals b.first and a.second < b.second;
\* a == b holds iff both components are equal.
C24_PairOrderIsLexicographic ==
    /\ pr.op = "<" =>
          (pr.ret <=> \/ pr.a.first < pr.b.first
                      \/ pr.a.first = pr.b.first /\ pr.a.second < pr.b.second)
    /\ pr.op = "==" =>
          (pr.ret <=> pr.a.first = pr.b.first /\ pr.a.second = pr.b.second)

\* C24 witness: (1, 2) < (1, 3) has been evaluated and is true: the first
\* values are equal and the second values decide.
C24_Witness ==
    /\ pr.op = "<" /\ pr.ret
    /\ pr.a = [first |-> 1, second |-> 2] /\ pr.b = [first |-> 1, second |-> 3]

\* ------------------------------------------------ byte claims
\* The set of bit positions that are one in the 8-bit value x.
C25_Bits(x) == {i \in 0..(ByteBits - 1) : (x \div 2^i) % 2 = 1}

\* C25: byte operators match plain 8-bit unsigned arithmetic: for every byte
\* b and shift s in 0..8, b << s is (b * 2^s) mod 256, b >> s is
\* floor(b / 2^s), ~b is 255 - b, and |, &, ^ are the bitwise operations on
\* the 8-bit values; each compound form stores and returns the result of the
\* binary form, and the binary form leaves its operand alone.
C25_ByteOperatorsAreEightBitArithmetic ==
    by.op # "none" =>
        /\ by.ret \in Bytes
        /\ by.op \in {"<<", "<<="} => by.ret = (by.b * 2^by.v) % 256
        /\ by.op \in {">>", ">>="} => by.ret = by.b \div 2^by.v
        /\ by.op = "~" => by.ret = 255 - by.b
        /\ by.op \in {"|", "|="} =>
              C25_Bits(by.ret) = C25_Bits(by.b) \cup C25_Bits(by.v)
        /\ by.op \in {"&", "&="} =>
              C25_Bits(by.ret) = C25_Bits(by.b) \cap C25_Bits(by.v)
        /\ by.op \in {"^", "^="} =>
              C25_Bits(by.ret) = (C25_Bits(by.b) \cup C25_Bits(by.v))
                                     \ (C25_Bits(by.b) \cap C25_Bits(by.v))
        /\ by.stored = IF by.op \in {"<<=", ">>=", "|=", "&=", "^="}
                       THEN by.ret ELSE by.b

\* C25 witness: byte(1) <<= 8 has run; the shifted bit fell off the byte, and
\* zero was stored and returned.
C25_Witness ==
    by.op = "<<=" /\ by.b = 1 /\ by.v = 8 /\ by.ret = 0 /\ by.stored = 0

\* ------------------------------------------------ integer.h claims
\* The magnitude of 2^n.
C26_Pow2(n) ==
    [i \in 1..(n \div ByteBits + 1) |->
        IF i = n \div ByteBits + 1 THEN 2^(n % ByteBits) ELSE 0]

\* The magnitude of m - 1, for a magnitude m above zero.
RECURSIVE C26_Minus1(_)
C26_Minus1(mag) ==
    IF Head(mag) = 0 THEN <<2^ByteBits - 1>> \o C26_Minus1(Tail(mag))
    ELSE Big_norm(<<Head(mag) - 1>> \o Tail(mag))

\* The canonical bound of the type of width w.
C26_Canonical(signed, w, query) ==
    CASE ~signed /\ query = "minValue" -> Big(FALSE, <<>>)
      [] ~signed /\ query = "maxValue" -> Big(FALSE, C26_Minus1(C26_Pow2(w)))
      []  signed /\ query = "minValue" -> Big(TRUE, C26_Pow2(w - 1))
      []  signed /\ query = "maxValue" ->
              Big(FALSE, C26_Minus1(C26_Pow2(w - 1)))

\* C26: the bound queries return the canonical bounds of each fixed-width
\* integer type: for width w in {8, 16, 32, 64}, maxValue of the unsigned
\* type is 2^w - 1 and its minValue is 0; maxValue of the signed type is
\* 2^(w-1) - 1 and its minValue is -2^(w-1).
C26_BoundsAreCanonical ==
    \A i \in 1..Len(iv.calls) :
        LET call == iv.calls[i]
        IN  call.ret = C26_Canonical(IV_Signed(call.type),
                                     ByteBits * IV_Bytes(call.type),
                                     call.query)

\* C26 witness: minValue<int64>() and maxValue<uint64>() have been queried
\* and returned -2^63 and 2^64 - 1.
C26_Witness ==
    /\ Len(iv.calls) = 2
    /\ iv.calls[1] = [type |-> "int64", query |-> "minValue",
                      ret |-> Big(TRUE, <<0, 0, 0, 0, 0, 0, 0, 128>>)]
    /\ iv.calls[2] = [type |-> "uint64", query |-> "maxValue",
                      ret |-> Big(FALSE,
                                  <<255, 255, 255, 255, 255, 255, 255, 255>>)]

\* ------------------------------------------- default-constructed handles
\* C27: a default-constructed SharedPointer<T> can be dereferenced: operator*
\* and operator-> on it return an object, so that a value written through the
\* handle is read back through it.
C27_DefaultConstructedCanBeDereferenced ==
    [][ \A h \in Handles :
            SP_Deref(h) =>
                /\ sp'.fault = NoFault
                /\ sp'.ret \in Resources
                /\ sp'.released[sp'.ret] = 0
      ]_vars

\* What the code does: no handle of these programs refers to an object, and
\* every dereference ends in the assertion of operator* (debug build) or in
\* the indirection through a null pointer (NDEBUG build).
C27_DereferenceOfDefaultConstructedFails ==
    [][ \A h \in Handles :
            SP_Deref(h) =>
                /\ sp.raw[h] = Null
                /\ sp'.fault = IF ndebug
                               THEN Undefined("dereference of a null pointer")
                               ELSE Abort(MsgNullDeref)
      ]_vars

\* ------------------------------------------------ release exactly once
\* Every handle that was constructed has been destroyed.
C28_AllDestroyed ==
    \A h \in Handles : sp.state[h] # "live"

\* Nothing has been released or freed twice, and once every handle is
\* destroyed every resource and every counter has been released or freed.
C28_OnceEach ==
    /\ \A r \in 1..sp.nResources : sp.released[r] <= 1
    /\ \A c \in 1..sp.nCounters : sp.deleted[c] <= 1
    /\ C28_AllDestroyed =>
          /\ \A r \in 1..sp.nResources : sp.released[r] = 1
          /\ \A c \in 1..sp.nCounters : sp.deleted[c] = 1

\* C28: for any finite single-threaded sequence of SharedPointer operations
\* (construct from a fresh resource, default-construct, copy, move, swap,
\* reset, expire, copy/move-assign between distinct non-empty handles)
\* followed by destruction of every handle, every resource that was ever
\* wrapped is released exactly once and every counter that was allocated is
\* freed exactly once; no such sequence goes wrong on the way.
C28_EverythingReleasedExactlyOnce ==
    sp.fault = NoFault /\ C28_OnceEach

\* The same for the sequences that did not go wrong.
C28_ReleasedExactlyOnceUnlessFault ==
    sp.fault = NoFault => C28_OnceEach

\* ------------------------------------------------ truthy handles
\* C29: in every reachable state, a SharedPointer whose boolean conversion is
\* true refers to a resource that has not been released, so that no
\* dereference that passes the null check, on any handle including expired
\* and moved-from ones, reaches a resource already released through another
\* handle.
C29_TruthyHandleRefersToUnreleasedResource ==
    \A h \in Handles :
        (SP_Live(h) /\ SharedPointer_bool(sp, h)) =>
            sp.released[sp.raw[h]] = 0

\* The same for the handles that still refer to a counter; this one holds.
C29_ReferencingHandleRefersToUnreleasedResource ==
    \A h \in Handles :
        (SP_Live(h) /\ sp.counter[h] # Null /\ SharedPointer_bool(sp, h)) =>
            sp.released[sp.raw[h]] = 0

\* ------------------------------------------------ self-assignment
\* C30: copy-assigning a SharedPointer to itself (a = a) leaves the handle
\* referring to the same resource with the same reference count, releases
\* nothing, and never dereferences a null counter, whether a is the sole
\* owner or one of several.
C30_SelfCopyAssignChangesNothing ==
    [][ \A h \in Handles :
            (SP_CopyAssign(h, h) /\ sp.counter[h] # Null) =>
                /\ sp'.fault = NoFault
                /\ sp'.raw = sp.raw /\ sp'.counter = sp.counter
                /\ sp'.count = sp.count
                /\ sp'.released = sp.released /\ sp'.deleted = sp.deleted
      ]_vars

\* What the code does: expire() clears the handle's own counter pointer, get()
\* reads it back from the same object, and the increment goes through null.
C30_SelfCopyAssignIncrementsThroughNull ==
    [][ \A h \in Handles :
            (SP_CopyAssign(h, h) /\ sp.counter[h] # Null) =>
                sp'.fault = Undefined("increment through a null counter")
      ]_vars

\* ------------------------------------------------ copy of an empty handle
\* C31: copy-constructing or copy-assigning from a SharedPointer that has
\* been expired or moved from (its counter pointer is null) is safe: it never
\* dereferences a null counter, and it yields a handle that owns nothing.
C31_Post(h, other) ==
    /\ sp'.fault = NoFault
    /\ sp'.state[h] = "live"
    /\ sp'.counter[h] = Null
    /\ sp'.counter[other] = Null

C31_CopyFromEmptyHandleIsSafe ==
    [][ \A h, other \in Handles :
            /\ (SP_CopyConstruct(h, other) /\ sp.counter[other] = Null) =>
                   C31_Post(h, other)
            /\ (SP_CopyAssign(h, other) /\ sp.counter[other] = Null) =>
                   C31_Post(h, other)
      ]_vars

\* What the code does: every copy from a handle without a counter increments
\* through the null counter.
C31_CopyFromEmptyHandleIncrementsThroughNull ==
    [][ \A h, other \in Handles :
            ((SP_CopyConstruct(h, other) \/ SP_CopyAssign(h, other))
                /\ sp.counter[other] = Null) =>
                   sp'.fault = Undefined("increment through a null counter")
      ]_vars

\* ------------------------------------------------ reset
\* C32: reset(p) drops the handle's current reference, releasing the old
\* resource iff this handle was its last owner, and then makes the handle the
\* sole owner of p with a fresh count of 1; the other handles that shared the
\* old resource keep it alive and their count is lowered by exactly one.
C32_Post(h, fresh) ==
    LET old == sp.counter[h]
        res == sp.raw[h]
        new == sp.nCounters + 1
        last == old # Null /\ sp.count[old] = 1
    IN  /\ sp'.fault = NoFault
        /\ sp'.counter[h] = new /\ sp'.count[new] = 1 /\ sp'.deleted[new] = 0
        /\ sp'.raw[h] = IF fresh THEN sp.nResources + 1 ELSE Null
        /\ \A g \in Handles \ {h} :
              /\ sp'.counter[g] = sp.counter[g] /\ sp'.raw[g] = sp.raw[g]
              /\ sp'.counter[g] # new
        /\ \A r \in Resources :
              sp'.released[r] =
                  IF last /\ r = res THEN 1 ELSE sp.released[r]
        /\ \A c \in 1..sp.nCounters :
              /\ sp'.deleted[c] = IF last /\ c = old THEN 1 ELSE sp.deleted[c]
              /\ sp'.count[c] = IF c = old THEN sp.count[c] - 1
                                ELSE sp.count[c]
        /\ (old # Null /\ ~last) =>
              /\ sp'.count[old] >= 1
              /\ res # Null => sp'.released[res] = 0

C32_ResetDropsOldAndOwnsNew ==
    [][ \A h \in Handles, fresh \in BOOLEAN :
            SP_Reset(h, fresh) => C32_Post(h, fresh) ]_vars

\* C32 witness: the only handle there is was the last owner of resource 1 and
\* has been reset to a new resource: resource 1 and counter 1 are gone, and
\* the handle owns resource 2 through the new counter 2 with count 1.
C32_Witness ==
    /\ sp.state = <<"live", "unborn", "unborn">>
    /\ sp.counter[1] = 2 /\ sp.raw[1] = 2 /\ sp.count[2] = 1
    /\ sp.released[1] = 1 /\ sp.deleted[1] = 1
    /\ sp.released[2] = 0 /\ sp.fault = NoFault

\* ------------------------------------------------ SharedArray assignment
\* C33: SharedArray assignment a = b (copy-and-swap) leaves a sharing b's
\* array with that array's count raised by one, and drops a's previous
\* reference, releasing the old array iff a was its last handle;
\* self-assignment a = a leaves the count and the array unchanged and
\* releases nothing.
C33_Post(h, other) ==
    LET old == sa.impl[h]
        c   == sa.impl[other]
    IN  /\ sa'.fault = NoFault
        /\ c # Null
        /\ sa'.impl[h] = c
        /\ \A g \in Handles \ {h} : sa'.impl[g] = sa.impl[g]
        /\ sa'.arr[c] = sa.arr[c]
        /\ sa'.count[c] = sa.count[c] + (IF old = c THEN 0 ELSE 1)
        /\ sa'.deleted[c] = 0
        /\ \A d \in (1..sa.nCounters) \ {c} :
              IF d = old /\ sa.count[d] = 1
              THEN /\ sa'.deleted[d] = 1
                   /\ sa.arr[d] # Null => sa'.released[sa.arr[d]] = 1
              ELSE /\ sa'.deleted[d] = sa.deleted[d]
                   /\ sa'.count[d] = sa.count[d] - (IF d = old THEN 1 ELSE 0)
                   /\ sa.arr[d] # Null =>
                         sa'.released[sa.arr[d]] = sa.released[sa.arr[d]]
        /\ sa.arr[c] # Null => sa'.released[sa.arr[c]] = 0

C33_AssignSharesSourceAndDropsOld ==
    [][ \A h, other \in Handles :
            SA_Assign(h, other, FALSE) => C33_Post(h, other) ]_vars

\* The same postcondition for sources that refer to a counter; this one
\* holds, self-assignment included.
C33_AssignFromReferencingSource ==
    [][ \A h, other \in Handles :
            (SA_Assign(h, other, FALSE) /\ sa.impl[other] # Null) =>
                C33_Post(h, other) ]_vars

\* ------------------------------------------------ moved-from SharedArray
\* C34: after a SharedArray has been moved from, its boolean conversion is
\* false and indexing it is the fatal "Attempt to dereference null pointer"
\* assertion; neither operation, nor operator==, accesses memory through the
\* handle's null counter pointer.
C34_MovedFromIsFalsyAndIndexAsserts ==
    [][ \A h \in Handles :
            sa.impl[h] = Null =>
                /\ SA_Bool(h) => sa'.fault = NoFault /\ ~sa'.retBool
                /\ SA_Index(h) => sa'.fault = Abort(MsgNullDeref)
                /\ \A other \in Handles :
                      (SA_Equal(h, other) \/ SA_Equal(other, h)) =>
                          sa'.fault = NoFault
      ]_vars

\* What the code does: the boolean conversion and the indexing of a handle
\* without a counter call getReference() through the null pointer, and so
\* does operator== unless both handles are without a counter.
C34_MovedFromIsReadThroughNull ==
    [][ \A h \in Handles :
            sa.impl[h] = Null =>
                /\ (SA_Bool(h) \/ SA_Index(h)) =>
                       sa'.fault =
                           Undefined("getReference through a null counter")
                /\ \A other \in Handles :
                      (SA_Equal(h, other) \/ SA_Equal(other, h)) =>
                          IF sa.impl[other] = Null
                          THEN sa'.fault = NoFault /\ sa'.retBool
                          ELSE sa'.fault =
                                 Undefined("getReference through a null counter")
      ]_vars

\* ------------------------------------------------ UniquePointer self-move
\* C35: move-assigning a UniquePointer to itself leaves it holding the same
\* resource, and that resource is not released by the assignment.
C35_SelfMoveAssignKeepsResource ==
    [][ \A h \in Handles :
            UP_MoveAssign(h, h) =>
                /\ up'.fault = NoFault
                /\ up'.raw = up.raw
                /\ up'.released = up.released
                /\ up.raw[h] # Null => up'.released[up.raw[h]] = 0
      ]_vars

\* C35 witness: handle 2 holds resource 2, unreleased, next to handle 1 with
\* resource 1, after a step that returned nothing: the state a self
\* move-assignment of handle 2 starts from and ends in.
C35_Witness ==
    /\ up.state = <<"live", "live", "unborn">>
    /\ up.raw[1] = 1 /\ up.raw[2] = 2
    /\ up.released = <<0, 0>>
    /\ up.ret = Null /\ up.fault = NoFault
    /\ ENABLED UP_MoveAssign(2, 2)

\* ------------------------------------------------ ScopedPointer deleters
\* C36: ScopedPointer::swap exchanges only the held resources and leaves each
\* handle's deleter in place: after a swap between two handles constructed
\* with different deleter instances, each resource is released by the deleter
\* of the handle that holds it at destruction, not by the deleter it was
\* constructed with.
C36_SwapKeepsDeletersInPlace ==
    [][ /\ \A h, other \in Handles :
              SD_Swap(h, other) =>
                  /\ sd'.ptr[h] = sd.ptr[other] /\ sd'.ptr[other] = sd.ptr[h]
                  /\ sd'.deleter = sd.deleter
                  /\ sd'.releasedBy = sd.releasedBy
        /\ \A h \in Handles :
              SD_Destroy(h) =>
                  \A r \in Resources :
                      sd'.releasedBy[r] =
                          IF r = sd.ptr[h] THEN <<sd.deleter[h]>>
                          ELSE sd.releasedBy[r]
      ]_vars

\* C36 witness: handles 1 and 2 were constructed with the deleters 1 and 2
\* and the resources 1 and 2, swapped and destroyed: resource 1 was released
\* by deleter 2 and resource 2 by deleter 1.
C36_Witness ==
    /\ sd.state = <<"gone", "gone", "unborn">>
    /\ sd.deleter[1] = 1 /\ sd.deleter[2] = 2
    /\ sd.builtWith = <<1, 2>>
    /\ sd.releasedBy = <<(<<2>>), (<<1>>)>>

\* ---------------------------------------------------------- Function claims
\* The Function object in slot h references no callable.
C37_Empty(h) == FN_Live(h) /\ fn.p.raw[h] = Null

\* C37: A default-constructed Function references no callable: its boolean
\* conversion is false and invoking it is a fatal assertion failure ("Attempt
\* to call null function") in a debug build; a Function holding a callable is
\* truthy, and invoking it calls that callable with the given arguments and
\* returns its result.
C37_FunctionCallsItsCallableOrAsserts ==
    [][ /\ \A h \in Handles :
              FN_DefaultConstruct(h) => fn'.p.raw[h] = Null
        /\ \A h \in Handles, c \in FN_Callables :
              FN_Construct(h, c) =>
                  /\ fn'.p.raw[h] \in Resources
                  /\ fn'.func[fn'.p.raw[h]] = c
                  /\ fn'.p.released[fn'.p.raw[h]] = 0
        /\ \A h \in Handles :
              FN_Bool(h) => fn'.ret.op = "bool" /\ fn'.ret.val = ~C37_Empty(h)
        /\ \A h \in Handles, a, b \in FN_Args :
              FN_Invoke(h, a, b) =>
                  IF C37_Empty(h)
                  THEN fn'.p.fault = Abort(MsgNullFunction)
                  ELSE /\ fn'.p.fault = NoFault
                       /\ fn'.ret.op = "call"
                       /\ fn'.ret.called = <<fn.func[fn.p.raw[h]], a, b>>
                       /\ fn.func[fn.p.raw[h]] = "add" => fn'.ret.val = a + b
                       /\ fn.func[fn.p.raw[h]] = "mul" => fn'.ret.val = a * b
      ]_vars

\* C37 witness: in a debug build a Function that wraps "mul" returned 1 for
\* (1, 1), and then the default-constructed Function next to it was invoked.
C37_Witness ==
    /\ ~ndebug
    /\ fn.p.fault = Abort(MsgNullFunction)
    /\ \E h, g \in Handles :
          /\ FN_Live(h) /\ fn.p.raw[h] # Null /\ fn.func[fn.p.raw[h]] = "mul"
          /\ FN_Live(g) /\ fn.p.raw[g] = Null
          /\ fn.ret = [op |-> "call", called |-> <<"mul", 1, 1>>, val |-> 1]

\* ------------------------------------------- derived Pair comparisons
\* The order comparisons agree with operator< and operator==, and exactly one
\* of a < b, a == b, a > b holds of the operands.
C38_OrderPart ==
    /\ pr.op = ">"  => (pr.ret <=> Pair_lt(pr.b, pr.a))
    /\ pr.op = "<=" => (pr.ret <=> ~Pair_lt(pr.b, pr.a))
    /\ pr.op = ">=" => (pr.ret <=> ~Pair_lt(pr.a, pr.b))
    /\ pr.op # "none" =>
          Cardinality({k \in {"<", "==", ">"} :
              CASE k = "<"  -> Pair_lt(pr.a, pr.b)
                [] k = "==" -> Pair_eq(pr.a, pr.b)
                [] k = ">"  -> Pair_gt(pr.a, pr.b)}) = 1

\* C38: The derived Pair comparisons are consistent with operator< and
\* operator==: for all pairs a, b over a totally ordered component type,
\* a > b iff b < a; a <= b iff not (b < a); a >= b iff not (a < b); a != b iff
\* not (a == b); and exactly one of a < b, a == b, a > b holds.
C38_DerivedComparisonsAreConsistent ==
    /\ C38_OrderPart
    /\ pr.op = "!=" =>
          pr.fault = NoFault /\ (pr.ret <=> ~Pair_eq(pr.a, pr.b))

\* C38 without operator!=: a > b iff b < a, a <= b iff not (b < a), a >= b iff
\* not (a < b), and exactly one of a < b, a == b, a > b holds; every a != b is
\* rejected by the compiler.
C38_OrderComparisonsAreConsistent ==
    /\ C38_OrderPart
    /\ pr.op = "!=" => pr.fault.kind = "ill-formed"
    /\ pr.op # "!=" => pr.fault = NoFault

\* -------------------------------------------------------- StackTrace claims
\* A StackTrace has been constructed, or its construction has failed.
C39_Built == st.pc \in {"trace", "size"}

\* C39: A StackTrace built from a snapshot of f frames skips the top-most
\* frame (the one that called backtrace()) and holds the remaining f - 1
\* frames: its size is f - 1 and its entry i resolves the snapshot's return
\* address i + 1; for f = 0 the size is 0, not a wrapped-around value.
C39_TraceSkipsTopFrame ==
    C39_Built =>
        LET f == Len(st.addresses)
        IN  /\ st.fault = NoFault
            /\ st.stackSize = IF f = 0 THEN 0 ELSE f - 1
            /\ Len(st.entries) = st.stackSize
            /\ \A i \in 0..(st.stackSize - 1) :
                  st.entries[i + 1] = st.addresses[i + 2]
            /\ st.pc = "size" => st.ret = st.stackSize

\* C39 as the code has it: the size is f - 1 for snapshots of one or two
\* frames, construction throws for f = 0, and from three frames on the loop
\* reads outside the snapshot.
C39_TraceOfTheCode ==
    C39_Built =>
        LET f == Len(st.addresses)
        IN  /\ f = 0 => st.fault = Thrown("std::bad_alloc")
            /\ f \in {1, 2} =>
                  /\ st.fault = NoFault
                  /\ st.stackSize = f - 1 /\ Len(st.entries) = f - 1
                  /\ st.pc = "size" => st.ret = f - 1
            /\ f >= 3 => st.fault.kind = "undefined"

====
